---- MODULE Spec2Model ----
(***************************************************************************)
(* State-machine model of the Screen subsystem of zellij-server            *)
(* (src/zellij-server/src/screen.rs).  One action per ScreenInstruction    *)
(* arm of screen_thread_main; the methods of Screen are operators over a   *)
(* record holding the fields of the Screen plus the messages sent during   *)
(* the dispatch and an error flag (the Err of the Result the method        *)
(* returns).  The Tab type lives outside the modelled sources: a tab is    *)
(* reduced to the fields the Screen reads and writes (index, position,     *)
(* visibility, connected clients, whether it has a selectable tiled pane). *)
(***************************************************************************)
EXTENDS Integers, Sequences, FiniteSets, TLC

\* ---------------------------------------------------------------- bounds
MaxClients == 2
MaxTabId == 1
MaxHistory == 2
DispatchMaxTabId == 0
DispatchMaxName == 0
MaxGoTo == MaxTabId + 2

Clients == 1..MaxClients
TabIds == 0..MaxTabId
NoClient == 0
NoArg == -1

\* the peers whose calls can return an error during one dispatch
Faults == {"none", "pty", "plugin", "server", "tab"}

VARIABLES
    tabs,                \* Screen.tabs: BTreeMap<usize, Tab>
    active_tab_indices,  \* Screen.active_tab_indices: BTreeMap<ClientId, usize>
    tab_history,         \* Screen.tab_history: BTreeMap<ClientId, Vec<usize>>
    connected_clients,   \* Screen.connected_clients: HashSet<ClientId>
    session_is_mirrored, \* Screen.session_is_mirrored
    running,             \* the loop of screen_thread_main has not returned
    overlay,             \* Screen.overlay.overlay_stack: Vec<Overlay>
    assigned,            \* history variable: every tab id handed out so far
    last,                \* the instruction dispatched last and what it sent
    frame                \* the PaneFrame whose title line is rendered

vars == <<tabs, active_tab_indices, tab_history, connected_clients,
          session_is_mirrored, running, overlay, assigned, last, frame>>

\* ---------------------------------------------------------------- helpers
EmptyMap == [x \in {} |-> 0]

MapRemove(f, k) == [x \in DOMAIN f \ {k} |-> f[x]]

MapInsert(f, k, v) == [x \in DOMAIN f \cup {k} |-> IF x = k THEN v ELSE f[x]]

Min(S) == CHOOSE x \in S : \A y \in S : x <= y

Max(S) == CHOOSE x \in S : \A y \in S : x >= y

RECURSIVE Ascending(_)
Ascending(S) == IF S = {} THEN <<>> ELSE <<Min(S)>> \o Ascending(S \ {Min(S)})

Retain(h, e) == SelectSeq(h, LAMBDA x : x # e)

Pop(h) == SubSeq(h, 1, Len(h) - 1)

Range(h) == {h[i] : i \in DOMAIN h}

Fail(s) == [s EXCEPT !.err = TRUE]

Msg(kind, client) == [msg |-> kind, client |-> client]

\* a send on one of the sender handles of the bus
send(s, peer, m, flt) ==
    IF s.err THEN s
    ELSE IF flt = peer THEN Fail(s)
    ELSE [s EXCEPT !.sent = Append(@, m)]

\* ---------------------------------------------------------------- Tab
\* clients is the tab's own set of connected clients, visible the argument of
\* the last Tab::visible call, selectable what has_selectable_tiled_panes
\* answers, sync what is_sync_panes_active answers; the client the tab is
\* created for is connected to it from the start
Tab_new(index, position, client_id) ==
    [position |-> position, visible |-> FALSE, clients |-> {client_id},
     selectable |-> TRUE, name |-> <<>>, prev_name |-> <<>>, sync |-> FALSE]

Tab_add_client(t, c) == [t EXCEPT !.clients = @ \cup {c}]

Tab_add_multiple_clients(t, cs) == [t EXCEPT !.clients = @ \cup cs]

Tab_remove_client(t, c) == [t EXCEPT !.clients = @ \ {c}]

\* drain_connected_clients(Some(who)) hands over those of who the tab holds
Tab_drained(t, who) == t.clients \cap who

Tab_drain_connected_clients(t, who) == [t EXCEPT !.clients = @ \ who]

Tab_has_no_connected_clients(t) == t.clients = {}

Tab_visible(t, b) == [t EXCEPT !.visible = b]

Tab_has_selectable_tiled_panes(t) == t.selectable

Tab_is_sync_panes_active(t) == t.sync

Tab_toggle_sync_panes_is_active(t) == [t EXCEPT !.sync = ~@]

\* the bytes a tab writes, by the terminals of tab index that get them: all
\* of them, or the one client_id is focused on
Tab_write_to_terminals_on_current_tab(index) ==
    [msg |-> "Write", client |-> NoClient, tab |-> index, terminals |-> "all"]

Tab_write_to_active_terminal(index, client_id) ==
    [msg |-> "Write", client |-> client_id, tab |-> index, terminals |-> "active"]

\* ---------------------------------------------------------------- Screen
\* as get_new_tab_index, from the number of tabs instead of the last key
get_new_tab_index_by_len(s) == Cardinality(DOMAIN s.tabs)

get_new_tab_index(s) ==
    IF DOMAIN s.tabs # {} THEN Max(DOMAIN s.tabs) + 1 ELSE 0

has_active_tab(s, client_id) ==
    /\ client_id \in DOMAIN s.active_tab_indices
    /\ s.active_tab_indices[client_id] \in DOMAIN s.tabs

get_first_client_id(s) ==
    IF DOMAIN s.active_tab_indices # {}
    THEN Min(DOMAIN s.active_tab_indices) ELSE NoClient

\* the client an instruction is applied for: itself when it has an active
\* tab, else the first client, else nobody
retarget(s, client_id) ==
    IF has_active_tab(s, client_id) THEN client_id ELSE get_first_client_id(s)

update_client_tab_focus(s, client_id, new_tab_index) ==
    IF client_id \in DOMAIN s.active_tab_indices
    THEN LET old_active_index == s.active_tab_indices[client_id]
             h == IF client_id \in DOMAIN s.tab_history
                  THEN s.tab_history[client_id] ELSE <<>>
         IN [s EXCEPT
               !.active_tab_indices = MapInsert(@, client_id, new_tab_index),
               !.tab_history = MapInsert(@, client_id,
                   Append(Retain(h, new_tab_index), old_active_index))]
    ELSE [s EXCEPT
            !.active_tab_indices = MapInsert(@, client_id, new_tab_index)]

RECURSIVE focus_all(_, _, _)
focus_all(s, cs, new_tab_index) ==
    IF cs = {} THEN s
    ELSE focus_all(update_client_tab_focus(s, Min(cs), new_tab_index),
                   cs \ {Min(cs)}, new_tab_index)

\* the TabInfo of every tab in the TabUpdate for client_id: whether it is the
\* active tab of the client, and the other clients focused on it
tab_data(s, client_id) ==
    [t \in DOMAIN s.tabs |->
        [active |-> s.active_tab_indices[client_id] = t,
         other_focused_clients |->
             IF s.session_is_mirrored THEN {}
             ELSE {c \in DOMAIN s.active_tab_indices :
                      s.active_tab_indices[c] = t /\ c # client_id}]]

update_tabs(s, flt) ==
    IF s.err THEN s
    ELSE IF DOMAIN s.active_tab_indices = {} THEN s
    ELSE IF flt = "plugin" THEN Fail(s)
    ELSE LET cs == Ascending(DOMAIN s.active_tab_indices)
         IN [s EXCEPT !.sent =
               @ \o [i \in 1..Len(cs) |->
                        [msg |-> "TabUpdate", client |-> cs[i],
                         tabs |-> tab_data(s, cs[i])]]]

unblock_input(s, flt) == send(s, "server", Msg("UnblockInputThread", NoClient), flt)

\* Screen::move_clients_from_closed_tab, the body of its loop for one client
rehome_client(s, client_id, first_tab_index, flt) ==
    LET h == IF client_id \in DOMAIN s.tab_history
             THEN s.tab_history[client_id] ELSE <<>>
        popped == Len(h) > 0
        client_previous_tab == IF popped THEN h[Len(h)] ELSE NoArg
        h1 == IF popped THEN Pop(h) ELSE h
        target == IF popped /\ client_previous_tab \in DOMAIN s.tabs
                  THEN client_previous_tab ELSE first_tab_index
        s1 == [s EXCEPT
                 !.tab_history = MapInsert(@, client_id, h1),
                 !.active_tab_indices = MapInsert(@, client_id, target)]
    IN IF flt = "tab" THEN Fail(s1)
       ELSE [s1 EXCEPT !.tabs[target] = Tab_add_client(@, client_id)]

RECURSIVE rehome_clients(_, _, _, _)
rehome_clients(s, cs, first_tab_index, flt) ==
    IF s.err \/ cs = <<>> THEN s
    ELSE rehome_clients(rehome_client(s, Head(cs), first_tab_index, flt),
                        Tail(cs), first_tab_index, flt)

move_clients_from_closed_tab(s, cs, flt) ==
    IF s.err THEN s
    ELSE IF DOMAIN s.tabs = {} THEN s
    ELSE rehome_clients(s, cs, Min(DOMAIN s.tabs), flt)

\* move_clients_between_tabs that drains every client of the source, whatever
\* clients_to_move names
move_all_clients_between_tabs(s, source, destination, all, to_move, flt) ==
    IF s.err THEN s
    ELSE IF source \notin DOMAIN s.tabs THEN s
    ELSE LET drained == s.tabs[source].clients
             s1 == [s EXCEPT !.tabs[source] =
                        Tab_drain_connected_clients(@, drained)]
         IN IF destination \notin DOMAIN s1.tabs THEN Fail(s1)
            ELSE IF flt = "tab" THEN Fail(s1)
            ELSE [s1 EXCEPT !.tabs[destination] =
                     Tab_visible(Tab_add_multiple_clients(@, drained), TRUE)]

\* all = TRUE stands for clients_to_move = None (every client of the source)
move_clients_between_tabs(s, source, destination, all, to_move, flt) ==
    IF s.err THEN s
    ELSE IF source \notin DOMAIN s.tabs THEN s
    ELSE LET drained == IF all THEN s.tabs[source].clients
                        ELSE Tab_drained(s.tabs[source],
                                         to_move)
             s1 == [s EXCEPT !.tabs[source] =
                        Tab_drain_connected_clients(@, drained)]
         IN IF destination \notin DOMAIN s1.tabs THEN Fail(s1)
            ELSE IF flt = "tab" THEN Fail(s1)
            ELSE [s1 EXCEPT !.tabs[destination] =
                     Tab_visible(Tab_add_multiple_clients(@, drained), TRUE)]

\* as position_after_close, without the move down of the tabs behind the
\* closed one
position_kept(position, closed_position) == position

\* the position a remaining tab gets when the tab at closed_position goes
position_after_close(position, closed_position) ==
    IF position > closed_position THEN position - 1 ELSE position

\* the loop over the remaining tabs at the end of close_tab_at_index; with a
\* failing tab the loop stops at the first tab it has to make visible
mark_visible_and_compact(s, closed_position, flt) ==
    LET visible_tab_indices ==
            {s.active_tab_indices[c] : c \in DOMAIN s.active_tab_indices}
        hit == DOMAIN s.tabs \cap visible_tab_indices
        stop == IF flt = "tab" /\ hit # {} THEN Min(hit) ELSE MaxTabId + 2
        done == [t \in DOMAIN s.tabs |->
                   IF t >= stop THEN s.tabs[t]
                   ELSE [s.tabs[t] EXCEPT
                           !.visible = IF t \in visible_tab_indices
                                       THEN TRUE ELSE @,
                           !.position = position_after_close(@, closed_position)]]
    IN [s EXCEPT !.tabs = done, !.err = (flt = "tab" /\ hit # {})]

RECURSIVE render(_, _), close_tab_at_index(_, _, _), close_tabs(_, _, _)

close_tab_at_index(s, tab_index, env) ==
    IF s.err THEN s
    ELSE IF tab_index \notin DOMAIN s.tabs THEN Fail(s)
    ELSE LET tab_to_close == s.tabs[tab_index]
             s1 == [s EXCEPT !.tabs = MapRemove(@, tab_index)]
             s2 == send(s1, "pty", Msg("CloseTab", NoClient), env.flt)
         IN IF s2.err THEN s2
            ELSE IF DOMAIN s2.tabs = {}
            THEN send([s2 EXCEPT !.active_tab_indices = EmptyMap],
                      "server", Msg("RenderNone", NoClient), env.flt)
            ELSE LET drained == SelectSeq(env.ord,
                                    LAMBDA c : c \in tab_to_close.clients)
                     s3 == move_clients_from_closed_tab(s2, drained, env.flt)
                     s4 == IF s3.err THEN s3
                           ELSE mark_visible_and_compact(s3,
                                    tab_to_close.position, env.flt)
                     s5 == update_tabs(s4, env.flt)
                 IN render(s5, env)

close_tabs(s, tabs_to_close, env) ==
    IF s.err \/ tabs_to_close = <<>> THEN s
    ELSE close_tabs(close_tab_at_index(s, Head(tabs_to_close), env),
                    Tail(tabs_to_close), env)

render(s, env) ==
    IF s.err THEN s
    ELSE LET shown == {t \in DOMAIN s.tabs :
                          Tab_has_selectable_tiled_panes(s.tabs[t])}
             tabs_to_close == Ascending(DOMAIN s.tabs \ shown)
         IN IF env.flt = "tab" /\ shown # {} THEN Fail(s)
            ELSE send(close_tabs(s, tabs_to_close, env), "server",
                      Msg("RenderSome", NoClient), env.flt)

switch_active_tab(s, new_tab_pos, client_id, env) ==
    IF s.err THEN s
    ELSE IF ~\E t \in DOMAIN s.tabs : s.tabs[t].position = new_tab_pos THEN s
    ELSE IF ~has_active_tab(s, client_id) THEN s
    ELSE LET new_tab_index ==
                 Min({t \in DOMAIN s.tabs : s.tabs[t].position = new_tab_pos})
             current_tab_index == s.active_tab_indices[client_id]
         IN IF s.tabs[current_tab_index].position = new_tab_pos THEN s
            ELSE LET s1 == move_clients_between_tabs(s, current_tab_index,
                               new_tab_index, s.session_is_mirrored,
                               {client_id}, env.flt)
                     s2 == IF s1.err THEN s1
                           ELSE IF s.session_is_mirrored
                           THEN focus_all(s1, s1.connected_clients, new_tab_index)
                           ELSE update_client_tab_focus(s1, client_id,
                                                        new_tab_index)
                     s3 == IF s2.err THEN s2
                           ELSE IF
                             /\ current_tab_index \in DOMAIN s2.tabs
                             /\ Tab_has_no_connected_clients(
                                    s2.tabs[current_tab_index])
                           THEN [s2 EXCEPT !.tabs[current_tab_index] =
                                               Tab_visible(@, FALSE)]
                           ELSE s2
                 IN render(update_tabs(s3, env.flt), env)

switch_tab_next(s, client_id, env) ==
    LET c == retarget(s, client_id)
    IN IF c # NoClient /\ has_active_tab(s, c)
       THEN switch_active_tab(s,
                (s.tabs[s.active_tab_indices[c]].position + 1)
                    % Cardinality(DOMAIN s.tabs), c, env)
       ELSE s

\* switch_tab_prev that stays on position 0 where the code wraps around to
\* the last position
switch_tab_prev_no_wrap(s, client_id, env) ==
    LET c == retarget(s, client_id)
    IN IF c # NoClient /\ has_active_tab(s, c)
       THEN LET active_tab_pos == s.tabs[s.active_tab_indices[c]].position
            IN switch_active_tab(s,
                   IF active_tab_pos = 0 THEN 0
                   ELSE active_tab_pos - 1, c, env)
       ELSE s

switch_tab_prev(s, client_id, env) ==
    LET c == retarget(s, client_id)
    IN IF c # NoClient /\ has_active_tab(s, c)
       THEN LET active_tab_pos == s.tabs[s.active_tab_indices[c]].position
            IN switch_active_tab(s,
                   IF active_tab_pos = 0 THEN Cardinality(DOMAIN s.tabs) - 1
                   ELSE active_tab_pos - 1, c, env)
       ELSE s

\* go_to_tab with a plain subtraction in place of saturating_sub
go_to_tab_unsaturated(s, tab_index, client_id, env) ==
    switch_active_tab(s, tab_index - 1, client_id, env)

\* usize::saturating_sub(1)
go_to_tab(s, tab_index, client_id, env) ==
    switch_active_tab(s, IF tab_index = 0 THEN 0 ELSE tab_index - 1,
                      client_id, env)

\* close_tab that leaves the last remaining tab open
close_tab_unless_last(s, client_id, env) ==
    LET c == retarget(s, client_id)
    IN IF c = NoClient \/ Cardinality(DOMAIN s.tabs) <= 1 THEN s
       ELSE close_tab_at_index(s, s.active_tab_indices[c], env)

close_tab(s, client_id, env) ==
    LET c == retarget(s, client_id)
    IN IF c = NoClient THEN s
       ELSE close_tab_at_index(s, s.active_tab_indices[c], env)

\* add_client that does not look at the active tab of the first client
add_client_to_first_tab(s, client_id, flt) ==
    IF s.err THEN s
    ELSE LET first_tab_history ==
                 IF DOMAIN s.tab_history # {}
                 THEN s.tab_history[Min(DOMAIN s.tab_history)] ELSE <<>>
             tab_index ==
                 IF 0 \in DOMAIN s.tabs THEN 0
                 ELSE IF DOMAIN s.tabs # {} THEN Min(DOMAIN s.tabs)
                 ELSE NoArg
             s1 == [s EXCEPT
                      !.active_tab_indices = MapInsert(@, client_id, tab_index),
                      !.connected_clients = @ \cup {client_id},
                      !.tab_history = MapInsert(@, client_id, first_tab_history)]
         IN IF tab_index = NoArg THEN Fail(s)
            ELSE IF tab_index \notin DOMAIN s1.tabs THEN Fail(s1)
            ELSE IF flt = "tab" THEN Fail(s1)
            ELSE [s1 EXCEPT !.tabs[tab_index] = Tab_add_client(@, client_id)]

add_client(s, client_id, flt) ==
    IF s.err THEN s
    ELSE LET first_tab_history ==
                 IF DOMAIN s.tab_history # {}
                 THEN s.tab_history[Min(DOMAIN s.tab_history)] ELSE <<>>
             tab_index ==
                 IF DOMAIN s.active_tab_indices # {}
                 THEN s.active_tab_indices[Min(DOMAIN s.active_tab_indices)]
                 ELSE IF 0 \in DOMAIN s.tabs THEN 0
                 ELSE IF DOMAIN s.tabs # {} THEN Min(DOMAIN s.tabs)
                 ELSE NoArg
             s1 == [s EXCEPT
                      !.active_tab_indices = MapInsert(@, client_id, tab_index),
                      !.connected_clients = @ \cup {client_id},
                      !.tab_history = MapInsert(@, client_id, first_tab_history)]
         IN IF tab_index = NoArg THEN Fail(s)
            ELSE IF tab_index \notin DOMAIN s1.tabs THEN Fail(s1)
            ELSE IF flt = "tab" THEN Fail(s1)
            ELSE [s1 EXCEPT !.tabs[tab_index] = Tab_add_client(@, client_id)]

\* the loop of remove_client over the tabs; with a failing tab it stops at the
\* first tab that is left without clients (visible(false) fails there)
remove_from_tabs(s, client_id, flt) ==
    LET emptied == {t \in DOMAIN s.tabs :
                       Tab_has_no_connected_clients(
                           Tab_remove_client(s.tabs[t], client_id))}
        stop == IF flt = "tab" /\ emptied # {} THEN Min(emptied)
                ELSE MaxTabId + 2
        done == [t \in DOMAIN s.tabs |->
                   IF t > stop THEN s.tabs[t]
                   ELSE IF t = stop THEN Tab_remove_client(s.tabs[t], client_id)
                   ELSE IF t \in emptied
                   THEN Tab_visible(Tab_remove_client(s.tabs[t], client_id), FALSE)
                   ELSE Tab_remove_client(s.tabs[t], client_id)]
    IN [s EXCEPT !.tabs = done, !.err = (flt = "tab" /\ emptied # {})]

\* remove_client without its closing update_tabs
remove_client_without_update(s, client_id, flt) ==
    IF s.err THEN s
    ELSE LET s1 == remove_from_tabs(s, client_id, flt)
         IN IF s1.err THEN s1
            ELSE [s1 EXCEPT
                    !.active_tab_indices = MapRemove(@, client_id),
                    !.tab_history = MapRemove(@, client_id),
                    !.connected_clients = @ \ {client_id}]

\* remove_client that leaves the tab_history entry of the client behind
remove_client_keeping_history(s, client_id, flt) ==
    IF s.err THEN s
    ELSE LET s1 == remove_from_tabs(s, client_id, flt)
             s2 == IF s1.err THEN s1
                   ELSE [s1 EXCEPT
                           !.active_tab_indices = MapRemove(@, client_id),
                           !.connected_clients = @ \ {client_id}]
         IN update_tabs(s2, flt)

\* remove_client that leaves the active_tab_indices entry of the client
\* behind
remove_client_keeping_active(s, client_id, flt) ==
    IF s.err THEN s
    ELSE LET s1 == remove_from_tabs(s, client_id, flt)
             s2 == IF s1.err THEN s1
                   ELSE [s1 EXCEPT
                           !.tab_history = MapRemove(@, client_id),
                           !.connected_clients = @ \ {client_id}]
         IN update_tabs(s2, flt)

remove_client(s, client_id, flt) ==
    IF s.err THEN s
    ELSE LET s1 == remove_from_tabs(s, client_id, flt)
             s2 == IF s1.err THEN s1
                   ELSE [s1 EXCEPT
                           !.active_tab_indices = MapRemove(@, client_id),
                           !.tab_history = MapRemove(@, client_id),
                           !.connected_clients = @ \ {client_id}]
         IN update_tabs(s2, flt)

\* the position given to a tab created now
new_tab_position(s) == Cardinality(DOMAIN s.tabs)

new_tab(s, client_id, env) ==
    LET c == IF has_active_tab(s, client_id) THEN client_id
             ELSE IF get_first_client_id(s) # NoClient
             THEN get_first_client_id(s) ELSE client_id
        tab_index == get_new_tab_index(s)
        tab == Tab_new(tab_index, new_tab_position(s), c)
        source == IF has_active_tab(s, c) THEN s.active_tab_indices[c]
                  ELSE NoArg
        drained == IF source = NoArg THEN {}
                   ELSE IF s.session_is_mirrored THEN s.tabs[source].clients
                   ELSE Tab_drained(s.tabs[source], {c})
        s1 == IF source = NoArg THEN s
              ELSE LET t1 == Tab_drain_connected_clients(s.tabs[source], drained)
                   IN [s EXCEPT !.tabs[source] =
                           IF Tab_has_no_connected_clients(t1)
                           THEN Tab_visible(t1, FALSE) ELSE t1]
        s2 == IF s.session_is_mirrored
              THEN focus_all(s1, s1.connected_clients, tab_index)
              ELSE IF source # NoArg
              THEN update_client_tab_focus(s1, c, tab_index)
              ELSE s1
        s3 == [s2 EXCEPT !.tabs = MapInsert(@, tab_index,
                  Tab_visible(Tab_add_multiple_clients(tab, drained), TRUE))]
        s4 == IF c \notin DOMAIN s3.active_tab_indices
              THEN add_client(s3, c, env.flt) ELSE s3
    IN IF s.err THEN s
       ELSE IF env.flt = "tab" THEN Fail(s)
       ELSE render(update_tabs(s4, env.flt), env)

toggle_tab(s, client_id, env) ==
    IF s.err THEN s
    ELSE IF client_id \notin DOMAIN s.tab_history THEN Fail(s)
    ELSE LET h == s.tab_history[client_id]
             s1 == IF Len(h) > 0
                   THEN [s EXCEPT !.tab_history[client_id] = Pop(h)] ELSE s
             s2 == IF Len(h) > 0 /\ h[Len(h)] \in DOMAIN s.tabs
                   THEN go_to_tab(s1, s.tabs[h[Len(h)]].position + 1,
                                  client_id, env)
                   ELSE s1
         IN render(update_tabs(s2, env.flt), env)

\* Tab::close_pane / close_focused_pane / set_pane_selectable as the Screen
\* sees them: the tab is left with or without a selectable tiled pane
set_selectable(s, tab_index, selectable) ==
    IF tab_index \in DOMAIN s.tabs
    THEN [s EXCEPT !.tabs[tab_index].selectable = selectable] ELSE s

\* the steps an arm of the loop runs after its handler, in the arm's order
\* as post_actions, with a failed call passed over: the calls after it run
\* all the same and the error is handed back at the end
RECURSIVE post_actions_all(_, _, _)
post_actions_all(s, steps, env) ==
    IF steps = <<>> THEN s
    ELSE LET s0 == [s EXCEPT !.at = @ + 1, !.err = FALSE]
             s1 == CASE Head(steps) = "unblock_input" ->
                            unblock_input(s0, env.flt)
                     [] Head(steps) = "update_tabs" -> update_tabs(s0, env.flt)
                     [] Head(steps) = "render" -> render(s0, env)
             r == post_actions_all(s1, Tail(steps), env)
         IN [r EXCEPT !.err = @ \/ s.err \/ s1.err]

\* s.at is the call of the arm that runs: 0 for the handler, k for the k-th
\* call after it
RECURSIVE post_actions(_, _, _)
post_actions(s, steps, env) ==
    IF s.err \/ steps = <<>> THEN s
    ELSE LET s0 == [s EXCEPT !.at = @ + 1]
             s1 == CASE Head(steps) = "unblock_input" ->
                            unblock_input(s0, env.flt)
                     [] Head(steps) = "update_tabs" -> update_tabs(s0, env.flt)
                     [] Head(steps) = "render" -> render(s0, env)
         IN post_actions(s1, Tail(steps), env)

\* str::from_utf8(buf).is_ok(), by the well-formed byte sequences of UTF-8
RECURSIVE is_utf8(_)
is_utf8(buf) ==
    LET n == Len(buf)
        cont(i) == i <= n /\ buf[i] >= 128 /\ buf[i] <= 191
        in(i, lo, hi) == i <= n /\ buf[i] >= lo /\ buf[i] <= hi
        after(k) == is_utf8(SubSeq(buf, k + 1, n))
    IN IF n = 0 THEN TRUE
       ELSE CASE buf[1] <= 127 -> after(1)
              [] buf[1] >= 194 /\ buf[1] <= 223 -> cont(2) /\ after(2)
              [] buf[1] = 224 -> in(2, 160, 191) /\ cont(3) /\ after(3)
              [] buf[1] >= 225 /\ buf[1] <= 236 -> cont(2) /\ cont(3) /\ after(3)
              [] buf[1] = 237 -> in(2, 128, 159) /\ cont(3) /\ after(3)
              [] buf[1] >= 238 /\ buf[1] <= 239 -> cont(2) /\ cont(3) /\ after(3)
              [] buf[1] = 240 ->
                     in(2, 144, 191) /\ cont(3) /\ cont(4) /\ after(4)
              [] buf[1] >= 241 /\ buf[1] <= 243 ->
                     cont(2) /\ cont(3) /\ cont(4) /\ after(4)
              [] buf[1] = 244 ->
                     in(2, 128, 143) /\ cont(3) /\ cont(4) /\ after(4)
              [] OTHER -> FALSE

\* the name of the active tab after the match on the decoded string
renamed(name, buf) ==
    IF buf = <<0>> THEN <<>>
    ELSE IF buf = <<127>> \/ buf = <<8>> THEN Pop(name)
    ELSE IF \A i \in DOMAIN buf : buf[i] >= 32 /\ buf[i] <= 126
    THEN name \o buf
    ELSE name

update_active_tab_name_ignoring_encoding(s, buf, client_id, flt) ==
    LET c == retarget(s, client_id)
    IN IF s.err \/ c = NoClient THEN s
       ELSE IF ~has_active_tab(s, c) THEN s
       ELSE update_tabs([s EXCEPT !.tabs[s.active_tab_indices[c]].name =
                            renamed(@, buf)], flt)

update_active_tab_name(s, buf, client_id, flt) ==
    LET c == retarget(s, client_id)
    IN IF s.err \/ c = NoClient THEN s
       ELSE IF ~is_utf8(buf) THEN Fail(s)
       ELSE IF ~has_active_tab(s, c) THEN s
       ELSE update_tabs([s EXCEPT !.tabs[s.active_tab_indices[c]].name =
                                      renamed(@, buf)], flt)

undo_active_rename_tab(s, client_id, flt) ==
    LET c == retarget(s, client_id)
    IN IF s.err \/ c = NoClient \/ ~has_active_tab(s, c) THEN s
       ELSE LET t == s.tabs[s.active_tab_indices[c]]
            IN IF t.name # t.prev_name
               THEN update_tabs([s EXCEPT !.tabs[s.active_tab_indices[c]].name
                                              = t.prev_name], flt)
               ELSE s

\* the input modes an instruction can carry, as far as the Screen tells them
\* apart: RenameTab snapshots the name, Normal stands for the modes that
\* clear the scroll of the active terminal when the client leaves Scroll
Modes == {"Normal", "RenameTab", "Pane"}

change_mode_without_snapshot(s, mode, client_id, flt) ==
    IF s.err THEN s
    ELSE IF mode = "Normal" /\ has_active_tab(s, client_id) /\ flt = "tab"
    THEN Fail(s)
    ELSE s

\* mode_info of the clients is not kept: clear_active_terminal_scroll (the
\* one call that can fail, run when the former mode was Scroll) fails under a
\* failing tab
change_mode(s, mode, client_id, flt) ==
    IF s.err THEN s
    ELSE IF mode = "Normal" /\ has_active_tab(s, client_id) /\ flt = "tab"
    THEN Fail(s)
    ELSE IF mode = "RenameTab" /\ has_active_tab(s, client_id)
    THEN [s EXCEPT !.tabs[s.active_tab_indices[client_id]].prev_name =
                       s.tabs[s.active_tab_indices[client_id]].name]
    ELSE s

RECURSIVE change_mode_for_clients(_, _, _, _)
change_mode_for_clients(s, mode, cs, flt) ==
    IF s.err \/ cs = <<>> THEN s
    ELSE LET r == change_mode(s, mode, Head(cs), flt)
         IN IF r.err THEN r
            ELSE change_mode_for_clients(
                     [r EXCEPT !.sent = Append(@, Msg("SwitchToMode", Head(cs)))],
                     mode, Tail(cs), flt)

change_mode_for_all_clients(s, mode, flt) ==
    change_mode_for_clients(s, mode, Ascending(DOMAIN s.active_tab_indices), flt)

write_character_to_active_terminal(s, client_id, flt) ==
    LET c == retarget(s, client_id)
    IN IF s.err \/ c = NoClient THEN s
       ELSE IF ~has_active_tab(s, c) THEN s
       ELSE IF flt = "tab" THEN Fail(s)
       ELSE [s EXCEPT !.sent =
                 Append(@, Tab_write_to_active_terminal(s.active_tab_indices[c],
                                                        c))]

\* the arm of WriteCharacter: the closure runs on the active tab of the
\* client, or of the first client when it has none
write_character(s, client_id, flt) ==
    LET c == retarget(s, client_id)
    IN IF s.err \/ c = NoClient THEN s
       ELSE IF ~has_active_tab(s, c) THEN s
       ELSE IF flt = "tab" THEN Fail(s)
       ELSE LET index == s.active_tab_indices[c]
            IN IF Tab_is_sync_panes_active(s.tabs[index])
               THEN [s EXCEPT !.sent =
                         Append(@, Tab_write_to_terminals_on_current_tab(index))]
               ELSE [s EXCEPT !.sent =
                         Append(@, Tab_write_to_active_terminal(index, c))]

\* the closure of the arm of ToggleActiveSyncTab
toggle_active_sync_tab(s, client_id) ==
    LET c == retarget(s, client_id)
    IN IF s.err \/ c = NoClient THEN s
       ELSE IF ~has_active_tab(s, c) THEN s
       ELSE [s EXCEPT !.tabs[s.active_tab_indices[c]] =
                          Tab_toggle_sync_panes_is_active(@)]

\* ------------------------------------------------- the arms of the loop
\* instructions whose handler only calls into the active tab (or no tab):
\* the macro that finds the tab, whether the closure's Result is checked
\* with `?`, and the calls that follow the handler, in order
U == "unblock_input"
T == "update_tabs"
R == "render"

Arm(macro, fallible, post) ==
    [macro |-> macro, fallible |-> fallible, post |-> post]

FirstFallibleUTR == {"NewPane", "TogglePaneEmbedOrFloating",
                     "ToggleFloatingPanes", "HorizontalSplit", "VerticalSplit"}
FirstUR == {"ResizeLeft", "ResizeRight", "ResizeDown", "ResizeUp",
            "ResizeIncrease", "ResizeDecrease", "SwitchFocus", "ScrollUp"}
FirstRU == {"FocusNextPane", "FocusPreviousPane", "MoveFocusLeft",
            "MoveFocusDown", "MoveFocusRight", "MoveFocusUp", "DumpScreen",
            "MovePane", "MovePaneDown", "MovePaneUp", "MovePaneRight",
            "MovePaneLeft", "PageScrollUp", "HalfPageScrollUp", "SearchUp",
            "SearchToggleCaseSensitivity", "SearchToggleWrap",
            "SearchToggleWholeWord"}
FirstFallibleRU == {"ScrollUpAt", "ScrollDown", "ScrollDownAt",
                    "ScrollToBottom", "PageScrollDown", "HalfPageScrollDown",
                    "ClearScroll", "UpdatePaneName", "UndoRenamePane"}
FirstTRU == {"ToggleActiveTerminalFullscreen"}
FirstFallibleR == {"EditScrollback", "UpdateSearch"}
ActiveFallibleTRU == {"LeftClick", "RightClick", "MiddleClick"}
ActiveFallibleR == {"RightMouseRelease", "MiddleMouseRelease", "MouseHoldLeft",
                    "MouseHoldRight", "MouseHoldMiddle", "Copy"}
NoTabNothing == {"TerminalPixelDimensions", "TerminalBackgroundColor",
                 "TerminalForegroundColor", "TerminalColorRegisters"}

PaneInstructions ==
    FirstFallibleUTR \cup FirstUR \cup FirstRU \cup FirstFallibleRU
    \cup FirstTRU \cup FirstFallibleR \cup ActiveFallibleTRU
    \cup ActiveFallibleR \cup NoTabNothing
    \cup {"PtyBytes", "NewPaneInTab", "OpenInPlaceEditor", "SearchDown",
          "HoldPane", "TogglePaneFrames", "TerminalResize", "LeftMouseRelease"}

ArmOf(i) ==
    CASE i \in FirstFallibleUTR -> Arm("first", TRUE, <<U, T, R>>)
      [] i \in FirstUR -> Arm("first", FALSE, <<U, R>>)
      [] i \in FirstRU -> Arm("first", FALSE, <<R, U>>)
      [] i \in FirstFallibleRU -> Arm("first", TRUE, <<R, U>>)
      [] i \in FirstTRU -> Arm("first", FALSE, <<T, R, U>>)
      [] i \in FirstFallibleR -> Arm("first", TRUE, <<R>>)
      [] i \in ActiveFallibleTRU -> Arm("active", TRUE, <<T, R, U>>)
      [] i \in ActiveFallibleR -> Arm("active", TRUE, <<R>>)
      [] i \in NoTabNothing -> Arm("none", FALSE, <<>>)
      [] i = "PtyBytes" -> Arm("index", TRUE, <<>>)
      [] i = "NewPaneInTab" -> Arm("index", TRUE, <<U, T, R>>)
      [] i = "OpenInPlaceEditor" -> Arm("active", TRUE, <<U, T, R>>)
      [] i = "SearchDown" -> Arm("first", FALSE, <<R>>)
      [] i = "HoldPane" -> Arm("active", FALSE, <<T, U>>)
      [] i = "TogglePaneFrames" -> Arm("none", FALSE, <<R, U>>)
      [] i = "TerminalResize" -> Arm("none", FALSE, <<R, R>>)
      [] i = "LeftMouseRelease" -> Arm("active", TRUE, <<R, U>>)

\* the calls that follow the handler in the arms that call a Screen method
TabInstructions == {"NewTab", "SwitchTabNext", "SwitchTabPrev", "GoToTab",
                    "ToggleTab", "CloseTab", "UpdateTabName", "UndoRenameTab",
                    "MoveFocusLeftOrPreviousTab", "MoveFocusRightOrNextTab"}

\* the arm of RemoveClient with an unblock_input after its render
Post_unblocking_remove_client(i) ==
    CASE i \in PaneInstructions -> ArmOf(i).post
      [] i \in TabInstructions -> <<U, R>>
      [] i = "AddClient" -> <<T, R>>
      [] i = "RemoveClient" -> <<R, U>>
      [] i = "SetSelectable" -> <<R>>
      [] i = "ClosePane" -> <<T, U>>
      [] i = "CloseFocusedPane" -> <<T, R, U>>
      [] i \in {"AddOverlay", "ConfirmPrompt"} -> <<U>>
      [] i \in {"RemoveOverlay", "DenyPrompt"} -> <<R, U>>
      [] i \in {"ChangeMode", "ChangeModeForAllClients"} -> <<R, U>>
      [] i = "ToggleActiveSyncTab" -> <<T, R, U>>
      [] OTHER -> <<>>

Post(i) ==
    CASE i \in PaneInstructions -> ArmOf(i).post
      [] i \in TabInstructions -> <<U, R>>
      [] i = "AddClient" -> <<T, R>>
      [] i \in {"RemoveClient", "SetSelectable"} -> <<R>>
      [] i = "ClosePane" -> <<T, U>>
      [] i = "CloseFocusedPane" -> <<T, R, U>>
      [] i \in {"AddOverlay", "ConfirmPrompt"} -> <<U>>
      [] i \in {"RemoveOverlay", "DenyPrompt"} -> <<R, U>>
      [] i \in {"ChangeMode", "ChangeModeForAllClients"} -> <<R, U>>
      [] i = "ToggleActiveSyncTab" -> <<T, R, U>>
      [] OTHER -> <<>>

\* whether the macro of the arm finds a tab to run the closure on
tab_found(s, macro, client_id, arg) ==
    CASE macro = "first" ->
             /\ retarget(s, client_id) # NoClient
             /\ has_active_tab(s, retarget(s, client_id))
      [] macro = "active" -> has_active_tab(s, client_id)
      [] macro = "index" -> arg \in DOMAIN s.tabs
      [] macro = "none" -> FALSE

pane_handler(s, arm, client_id, arg, flt) ==
    IF tab_found(s, arm.macro, client_id, arg) /\ arm.fallible /\ flt = "tab"
    THEN Fail(s) ELSE s

\* ------------------------------------------------------------- actions
Screen ==
    [tabs |-> tabs, active_tab_indices |-> active_tab_indices,
     tab_history |-> tab_history, connected_clients |-> connected_clients,
     session_is_mirrored |-> session_is_mirrored, overlay |-> overlay,
     sent |-> <<>>, err |-> FALSE, at |-> 0]

Orders == {p \in [1..MaxClients -> Clients] :
              \A i, j \in 1..MaxClients : p[i] = p[j] => i = j}

\* what the environment decides during one dispatch: the peer that fails
\* (if any) and the iteration order of the HashSet of a tab's clients
Envs == {[flt |-> f, ord |-> o] : f \in Faults \ {"tab"}, o \in {Ascending(Clients)}}
        \cup {[flt |-> "tab", ord |-> o] : o \in Orders}

\* the dispatches during which no peer fails
Quiet == {e \in Envs : e.flt = "none"}

Ready ==
    /\ running
    /\ \A c \in DOMAIN tab_history : Len(tab_history[c]) <= MaxHistory

\* as Commit, with the error of the arm dropped and the loop going on
Commit_and_go_on(r, instr, client_id, arg) ==
    /\ tabs' = r.tabs
    /\ active_tab_indices' = r.active_tab_indices
    /\ tab_history' = r.tab_history
    /\ connected_clients' = r.connected_clients
    /\ overlay' = r.overlay
    /\ running' = TRUE
    /\ last' = [instr |-> instr, client |-> client_id, arg |-> arg,
                sent |-> r.sent, failed |-> r.err, at |-> r.at]
    /\ UNCHANGED <<session_is_mirrored, frame>>

\* the end of an arm: `?` returns the error out of screen_thread_main
Commit(r, instr, client_id, arg) ==
    /\ tabs' = r.tabs
    /\ active_tab_indices' = r.active_tab_indices
    /\ tab_history' = r.tab_history
    /\ connected_clients' = r.connected_clients
    /\ overlay' = r.overlay
    /\ running' = ~r.err
    /\ last' = [instr |-> instr, client |-> client_id, arg |-> arg,
                sent |-> r.sent, failed |-> r.err, at |-> r.at]
    /\ UNCHANGED <<session_is_mirrored, frame>>

InitScreen ==
    /\ tabs = EmptyMap
    /\ active_tab_indices = EmptyMap
    /\ tab_history = EmptyMap
    /\ connected_clients = {}
    /\ session_is_mirrored \in BOOLEAN
    /\ running = TRUE
    /\ overlay = <<>>
    /\ assigned = {}
    /\ last = [instr |-> "Init", client |-> NoClient, arg |-> NoArg,
               sent |-> <<>>, failed |-> FALSE, at |-> 0]

\* no pane frame is being rendered
NoFrame == [rendered |-> "none"]

InitNoFrame == frame = NoFrame

Init ==
    /\ InitScreen
    /\ InitNoFrame

NewTab(max_tab_id, envs) ==
    /\ Ready
    /\ get_new_tab_index(Screen) <= max_tab_id
    /\ \E client_id \in Clients, env \in envs :
         LET r == post_actions(new_tab(Screen, client_id, env), Post("NewTab"), env)
         IN /\ Commit(r, "NewTab", client_id, get_new_tab_index(Screen))
            /\ assigned' = assigned \cup
                   (DOMAIN r.tabs \cap {get_new_tab_index(Screen)})

AddClient(envs) ==
    /\ Ready
    /\ \E client_id \in Clients, env \in envs :
         /\ Commit(post_actions(add_client(Screen, client_id, env.flt),
                                Post("AddClient"), env),
                   "AddClient", client_id, NoArg)
         /\ UNCHANGED assigned

RemoveClient(envs) ==
    /\ Ready
    /\ \E client_id \in Clients, env \in envs :
         /\ Commit(post_actions(remove_client(Screen, client_id, env.flt),
                                Post("RemoveClient"), env),
                   "RemoveClient", client_id, NoArg)
         /\ UNCHANGED assigned

SwitchTabNext(envs) ==
    /\ Ready
    /\ \E client_id \in Clients, env \in envs :
         /\ Commit(post_actions(switch_tab_next(Screen, client_id, env),
                                Post("SwitchTabNext"), env),
                   "SwitchTabNext", client_id, NoArg)
         /\ UNCHANGED assigned

SwitchTabPrev(envs) ==
    /\ Ready
    /\ \E client_id \in Clients, env \in envs :
         /\ Commit(post_actions(switch_tab_prev(Screen, client_id, env),
                                Post("SwitchTabPrev"), env),
                   "SwitchTabPrev", client_id, NoArg)
         /\ UNCHANGED assigned

\* client_id = NoClient stands for GoToTab(tab_index, None)
GoToTab(envs) ==
    /\ Ready
    /\ \E client_id \in Clients \cup {NoClient}, tab_index \in 0..MaxGoTo,
          env \in envs :
         LET c == IF client_id = NoClient THEN NoClient
                  ELSE IF client_id \in DOMAIN active_tab_indices
                  THEN client_id
                  ELSE get_first_client_id(Screen)
             r == IF c = NoClient THEN Screen
                  ELSE post_actions(go_to_tab(Screen, tab_index, c, env),
                                    Post("GoToTab"), env)
         IN /\ Commit(r, "GoToTab", client_id, tab_index)
            /\ UNCHANGED assigned

ToggleTab(envs) ==
    /\ Ready
    /\ \E client_id \in Clients, env \in envs :
         /\ Commit(post_actions(toggle_tab(Screen, client_id, env),
                                Post("ToggleTab"), env),
                   "ToggleTab", client_id, NoArg)
         /\ UNCHANGED assigned

CloseTab(envs) ==
    /\ Ready
    /\ \E client_id \in Clients, env \in envs :
         /\ Commit(post_actions(close_tab(Screen, client_id, env),
                                Post("CloseTab"), env),
                   "CloseTab", client_id, NoArg)
         /\ UNCHANGED assigned

\* the byte strings an UpdateTabName carries
TabNameInputs == {<<0>>, <<127>>, <<8>>, <<97>>, <<97, 98>>, <<7>>, <<255>>,
                  <<195, 169>>}

UpdateTabName(max_name, envs) ==
    /\ Ready
    /\ \E client_id \in Clients, buf \in TabNameInputs, env \in envs :
         LET r == post_actions(update_active_tab_name(Screen, buf, client_id,
                                                      env.flt),
                               Post("UpdateTabName"), env)
         IN /\ \A t \in DOMAIN r.tabs : Len(r.tabs[t].name) <= max_name
            /\ Commit(r, "UpdateTabName", client_id, buf)
            /\ UNCHANGED assigned

UndoRenameTab(envs) ==
    /\ Ready
    /\ \E client_id \in Clients, env \in envs :
         /\ Commit(post_actions(undo_active_rename_tab(Screen, client_id,
                                                       env.flt),
                                Post("UndoRenameTab"), env),
                   "UndoRenameTab", client_id, NoArg)
         /\ UNCHANGED assigned

Render(envs) ==
    /\ Ready
    /\ \E env \in envs :
         /\ Commit(render(Screen, env), "Render", NoClient, NoArg)
         /\ UNCHANGED assigned

SetSelectable(envs) ==
    /\ Ready
    /\ \E tab_index \in TabIds, selectable \in BOOLEAN, env \in envs :
         /\ Commit(post_actions(set_selectable(Screen, tab_index, selectable),
                                Post("SetSelectable"), env),
                   "SetSelectable", NoClient, tab_index)
         /\ UNCHANGED assigned

\* ClosePane(id, client): tab_index is the tab that holds pane id, emptied
\* tells whether id was its last selectable tiled pane; client_id = NoClient
\* stands for None (the pane is looked up in every tab)
ClosePane(envs) ==
    /\ Ready
    /\ \E client_id \in Clients \cup {NoClient}, tab_index \in TabIds,
          emptied \in BOOLEAN, env \in envs :
         LET hit == IF client_id = NoClient THEN tab_index \in DOMAIN tabs
                    ELSE /\ has_active_tab(Screen, client_id)
                         /\ active_tab_indices[client_id] = tab_index
             s1 == IF hit /\ emptied
                   THEN set_selectable(Screen, tab_index, FALSE) ELSE Screen
         IN /\ Commit(post_actions(s1, Post("ClosePane"), env),
                      "ClosePane", client_id, tab_index)
            /\ UNCHANGED assigned

\* CloseFocusedPane(client): emptied tells whether the focused pane was the
\* last selectable tiled pane of the tab
CloseFocusedPane(envs) ==
    /\ Ready
    /\ \E client_id \in Clients, emptied \in BOOLEAN, env \in envs :
         LET c == retarget(Screen, client_id)
             found == c # NoClient /\ has_active_tab(Screen, c)
             s1 == IF found /\ env.flt = "tab" THEN Fail(Screen)
                   ELSE IF found /\ emptied
                   THEN set_selectable(Screen, active_tab_indices[c], FALSE)
                   ELSE Screen
         IN /\ Commit(post_actions(s1, Post("CloseFocusedPane"), env),
                      "CloseFocusedPane", client_id, NoArg)
            /\ UNCHANGED assigned

ChangeMode(envs) ==
    /\ Ready
    /\ \E client_id \in Clients, mode \in Modes, env \in envs :
         /\ Commit(post_actions(change_mode(Screen, mode, client_id, env.flt),
                                Post("ChangeMode"), env),
                   "ChangeMode", client_id, mode)
         /\ UNCHANGED assigned

ChangeModeForAllClients(envs) ==
    /\ Ready
    /\ \E mode \in Modes, env \in envs :
         /\ Commit(post_actions(change_mode_for_all_clients(Screen, mode,
                                                            env.flt),
                                Post("ChangeModeForAllClients"), env),
                   "ChangeModeForAllClients", NoClient, mode)
         /\ UNCHANGED assigned

WriteCharacter(envs) ==
    /\ Ready
    /\ \E client_id \in Clients, env \in envs :
         /\ Commit(post_actions(write_character(Screen, client_id, env.flt),
                                Post("WriteCharacter"), env),
                   "WriteCharacter", client_id, NoArg)
         /\ UNCHANGED assigned

ToggleActiveSyncTab(envs) ==
    /\ Ready
    /\ \E client_id \in Clients, env \in envs :
         /\ Commit(post_actions(toggle_active_sync_tab(Screen, client_id),
                                Post("ToggleActiveSyncTab"), env),
                   "ToggleActiveSyncTab", client_id, NoArg)
         /\ UNCHANGED assigned

\* MoveFocusLeftOrPreviousTab / MoveFocusRightOrNextTab: moved is the bool
\* Tab::move_focus_left / move_focus_right returns
MoveFocusOrTab(envs) ==
    /\ Ready
    /\ \E client_id \in Clients, moved \in BOOLEAN, left \in BOOLEAN,
          env \in envs :
         LET c == retarget(Screen, client_id)
             found == c # NoClient /\ has_active_tab(Screen, c)
             s1 == IF found /\ ~moved
                   THEN IF left THEN switch_tab_prev(Screen, c, env)
                        ELSE switch_tab_next(Screen, c, env)
                   ELSE Screen
         IN /\ Commit(post_actions(s1, Post("MoveFocusLeftOrPreviousTab"), env),
                      IF left THEN "MoveFocusLeftOrPreviousTab"
                      ELSE "MoveFocusRightOrNextTab", client_id, NoArg)
            /\ UNCHANGED assigned

\* an instruction of PaneInstructions; tab_index is the tab a pid or a
\* TabIndex target points at
PaneInstruction(envs) ==
    /\ Ready
    /\ \E i \in PaneInstructions :
         \E client_id \in IF ArmOf(i).macro \in {"first", "active"}
                          THEN Clients ELSE {NoClient},
            tab_index \in IF ArmOf(i).macro = "index" THEN TabIds ELSE {NoArg},
            env \in envs :
           /\ Commit(post_actions(pane_handler(Screen, ArmOf(i), client_id,
                                               tab_index, env.flt),
                                  ArmOf(i).post, env),
                     i, NoClient, tab_index)
           /\ UNCHANGED assigned

\* the overlay is reduced to whether its prompt carries an instruction
add_overlay_without_pop(s, o) == [s EXCEPT !.overlay = Append(@, o)]

\* the arm of AddOverlay pops the stack of overlays, then pushes the new one
add_overlay(s, o) == [s EXCEPT !.overlay = Append(Pop(@), o)]

AddOverlay(envs) ==
    /\ Ready
    /\ \E carries \in BOOLEAN, env \in envs :
         /\ Commit(post_actions(add_overlay(Screen, carries),
                                Post("AddOverlay"), env),
                   "AddOverlay", NoClient, NoArg)
         /\ UNCHANGED assigned

RemoveOverlay(envs) ==
    /\ Ready
    /\ \E deny \in BOOLEAN, env \in envs :
         /\ Commit(post_actions([Screen EXCEPT !.overlay = Pop(@)],
                                Post("RemoveOverlay"), env),
                   IF deny THEN "DenyPrompt" ELSE "RemoveOverlay",
                   NoClient, NoArg)
         /\ UNCHANGED assigned

ConfirmPrompt(envs) ==
    /\ Ready
    /\ \E env \in envs :
         LET s1 == [Screen EXCEPT !.overlay = Pop(@)]
             s2 == IF Len(overlay) > 0 /\ overlay[Len(overlay)]
                   THEN send(s1, "server", Msg("Confirmed", NoClient), env.flt)
                   ELSE s1
         IN /\ Commit(post_actions(s2, Post("ConfirmPrompt"), env),
                      "ConfirmPrompt", NoClient, NoArg)
            /\ UNCHANGED assigned

\* bus.recv() returns an error: `?` ends the loop before any arm runs
RecvFails ==
    /\ Ready
    /\ running' = FALSE
    /\ last' = [instr |-> "RecvFails", client |-> NoClient, arg |-> NoArg,
                sent |-> <<>>, failed |-> FALSE, at |-> 0]
    /\ UNCHANGED <<tabs, active_tab_indices, tab_history, connected_clients,
                   session_is_mirrored, overlay, assigned, frame>>

Exit_keeps_running ==
    /\ Ready
    /\ last' = [instr |-> "Exit", client |-> NoClient, arg |-> NoArg,
                sent |-> <<>>, failed |-> FALSE, at |-> 0]
    /\ UNCHANGED <<tabs, active_tab_indices, tab_history, connected_clients,
                   session_is_mirrored, overlay, assigned, running, frame>>

Exit ==
    /\ Ready
    /\ running' = FALSE
    /\ last' = [instr |-> "Exit", client |-> NoClient, arg |-> NoArg,
                sent |-> <<>>, failed |-> FALSE, at |-> 0]
    /\ UNCHANGED <<tabs, active_tab_indices, tab_history, connected_clients,
                   session_is_mirrored, overlay, assigned, frame>>

\* the instructions that change which tabs exist and who looks at them
Next ==
    \/ NewTab(MaxTabId, Quiet)
    \/ AddClient(Quiet)
    \/ RemoveClient(Quiet)
    \/ SwitchTabNext(Quiet)
    \/ SwitchTabPrev(Quiet)
    \/ GoToTab(Quiet)
    \/ ToggleTab(Quiet)
    \/ CloseTab(Quiet)
    \/ Render(Quiet)
    \/ SetSelectable(Quiet)
    \/ ClosePane(Quiet)
    \/ CloseFocusedPane(Quiet)

Spec == Init /\ [][Next]_vars

\* every arm of the loop, over at most DispatchMaxTabId + 1 tabs of a session
\* that is not mirrored
NextDispatch ==
    \/ NewTab(DispatchMaxTabId, Envs)
    \/ AddClient(Envs)
    \/ RemoveClient(Envs)
    \/ SwitchTabNext(Envs)
    \/ SwitchTabPrev(Envs)
    \/ GoToTab(Envs)
    \/ ToggleTab(Envs)
    \/ CloseTab(Envs)
    \/ Render(Envs)
    \/ SetSelectable(Envs)
    \/ ClosePane(Envs)
    \/ CloseFocusedPane(Envs)
    \/ UpdateTabName(DispatchMaxName, Envs)
    \/ UndoRenameTab(Envs)
    \/ ChangeMode(Envs)
    \/ ChangeModeForAllClients(Envs)
    \/ WriteCharacter(Envs)
    \/ ToggleActiveSyncTab(Envs)
    \/ MoveFocusOrTab(Envs)
    \/ PaneInstruction(Envs)
    \/ AddOverlay(Envs)
    \/ RemoveOverlay(Envs)
    \/ ConfirmPrompt(Envs)
    \/ Exit
    \/ RecvFails

InitDispatch ==
    /\ Init
    /\ ~session_is_mirrored

SpecDispatch == InitDispatch /\ [][NextDispatch]_vars

\* ------------------------------------------------ renaming the active tab
\* names of up to RenameMaxName characters on a single tab, no failing peer
RenameMaxName == 2

RenameMaxTabId == 0

NextRename ==
    \/ NewTab(RenameMaxTabId, Quiet)
    \/ AddClient(Quiet)
    \/ RemoveClient(Quiet)
    \/ ChangeMode(Quiet)
    \/ ChangeModeForAllClients(Quiet)
    \/ UpdateTabName(RenameMaxName, Quiet)
    \/ UndoRenameTab(Quiet)

SpecRename == InitDispatch /\ [][NextRename]_vars

\* ------------------------------------------------ writing to the terminals
\* tabs 0..WriteMaxTabId with their sync-panes flag, no failing peer
WriteMaxTabId == 1

NextWrite ==
    \/ NewTab(WriteMaxTabId, Quiet)
    \/ AddClient(Quiet)
    \/ RemoveClient(Quiet)
    \/ SwitchTabNext(Quiet)
    \/ ToggleActiveSyncTab(Quiet)
    \/ WriteCharacter(Quiet)

SpecWrite == Init /\ [][NextWrite]_vars

\* ------------------------------------------- moving clients under failure
\* tabs 0..MoveMaxTabId, the switches with every peer and tab failure
MoveMaxTabId == 1

NextMove ==
    \/ NewTab(MoveMaxTabId, Quiet)
    \/ AddClient(Quiet)
    \/ SwitchTabNext(Envs)
    \/ SwitchTabPrev(Envs)
    \/ GoToTab(Envs)

SpecMove == Init /\ [][NextMove]_vars

\* ------------------------------------------------------- the pane frame
\* (src/zellij-server/src/ui/pane_boundaries_frame.rs)  A rendered part of
\* the title line is the Option<(Vec<TerminalCharacter>, usize)> the code
\* returns: the characters and the length that goes with them.  Characters
\* are kept as tokens, a word of the indication being one token.
FrameMaxClients == 2
FrameMaxTitle == 4
FrameMaxLength == 24

VERTICAL_LEFT == "VERTICAL_LEFT"
VERTICAL_RIGHT == "VERTICAL_RIGHT"
EMPTY_TERMINAL_CHARACTER == " "

\* the columns a token takes
TokenWidth(tok) ==
    CASE tok = "MY FOCUS" -> 8
      [] tok = "ME" -> 2
      [] tok = "MY FOCUS AND:" -> 13
      [] tok = "FOCUSED USER:" -> 13
      [] tok = "FOCUSED USERS:" -> 14
      [] tok = "U:" -> 2
      [] OTHER -> 1

RECURSIVE TextWidth(_)
TextWidth(text) ==
    IF text = <<>> THEN 0 ELSE TokenWidth(Head(text)) + TextWidth(Tail(text))

RECURSIVE Sum(_)
Sum(widths) == IF widths = <<>> THEN 0 ELSE Head(widths) + Sum(Tail(widths))

NoPart == [some |-> FALSE, text |-> <<>>, len |-> 0]

Part(text, len) == [some |-> TRUE, text |-> text, len |-> len]

\* the cursors of n other clients, each after an empty character when padded
RECURSIVE client_cursors(_, _)
client_cursors(n, padded) ==
    IF n = 0 THEN <<>>
    ELSE (IF padded THEN <<EMPTY_TERMINAL_CHARACTER, "cursor">> ELSE <<"cursor">>)
         \o client_cursors(n - 1, padded)

\* full_indication takes the separators with append, which empties them:
\* short_indication is built from the emptied separators
render_my_focus(max_length) ==
    LET full_indication == <<VERTICAL_LEFT, EMPTY_TERMINAL_CHARACTER, "MY FOCUS",
                             EMPTY_TERMINAL_CHARACTER, VERTICAL_RIGHT>>
        full_indication_len == TokenWidth("MY FOCUS") + 4
        short_indication == <<EMPTY_TERMINAL_CHARACTER, "ME",
                              EMPTY_TERMINAL_CHARACTER>>
        short_indication_len == TokenWidth("ME") + 4
    IN IF full_indication_len <= max_length
       THEN Part(full_indication, full_indication_len)
       ELSE IF short_indication_len <= max_length
       THEN Part(short_indication, short_indication_len)
       ELSE NoPart

\* ret of the branches: the indication between separators and padding
framed(indication) ==
    <<VERTICAL_LEFT, EMPTY_TERMINAL_CHARACTER>> \o indication
    \o <<EMPTY_TERMINAL_CHARACTER, VERTICAL_RIGHT>>

render_my_and_others_focus(f, max_length) ==
    LET n == Cardinality(f.other_focused_clients)
        full_indication == <<"MY FOCUS AND:">> \o client_cursors(n, TRUE)
        full_indication_len == TokenWidth("MY FOCUS AND:") + 2 * n
        short_indication == <<"+">> \o client_cursors(n, FALSE)
        short_indication_len == TokenWidth("+") + 2 * n
    IN IF full_indication_len + 4 <= max_length
       THEN Part(framed(full_indication), full_indication_len + 4)
       ELSE IF short_indication_len + 4 <= max_length
       THEN Part(framed(short_indication), short_indication_len + 4)
       ELSE NoPart

render_other_focused_users(f, max_length) ==
    LET n == Cardinality(f.other_focused_clients)
        full_indication_text == IF n = 1 THEN "FOCUSED USER:"
                                ELSE "FOCUSED USERS:"
        full_indication == <<full_indication_text>> \o client_cursors(n, TRUE)
        full_indication_len == TokenWidth(full_indication_text) + 2 * n
        middle_indication == <<"U:">> \o client_cursors(n, TRUE)
        middle_indication_len == TokenWidth("U:") + 2 * n
        short_indication == client_cursors(n, TRUE)
        short_indication_len == 2 * n
    IN IF full_indication_len + 4 <= max_length
       THEN Part(framed(full_indication), full_indication_len + 4)
       ELSE IF middle_indication_len + 4 <= max_length
       THEN Part(framed(middle_indication), middle_indication_len + 4)
       ELSE IF short_indication_len + 3 <= max_length
       THEN Part(framed(short_indication), short_indication_len + 3)
       ELSE NoPart

render_title_middle(f, max_length) ==
    IF /\ f.is_main_client
       /\ f.other_focused_clients = {}
       /\ ~f.other_cursors_exist_in_session
    THEN NoPart
    ELSE IF /\ f.is_main_client
            /\ f.other_focused_clients = {}
            /\ f.other_cursors_exist_in_session
    THEN render_my_focus(max_length)
    ELSE IF f.is_main_client /\ f.other_focused_clients # {}
    THEN render_my_and_others_focus(f, max_length)
    ELSE IF f.other_focused_clients # {}
    THEN render_other_focused_users(f, max_length)
    ELSE NoPart

\* the title as the widths of its characters; first_part takes characters
\* from the front while they fit in the half
RECURSIVE first_part(_, _)
first_part(text, room) ==
    IF text = <<>> \/ Head(text) > room THEN <<>>
    ELSE <<Head(text)>> \o first_part(Tail(text), room - Head(text))

Reverse(text) == [i \in 1..Len(text) |-> text[Len(text) + 1 - i]]

\* second_part takes them from the back
second_part(text, room) == Reverse(first_part(Reverse(text), room))

NoTitle == [some |-> FALSE, head |-> <<>>, sign |-> "", tail |-> <<>>, len |-> 0]

SignWidth(sign) ==
    CASE sign = "[..]" -> 4
      [] sign = "[...]" -> 5
      [] OTHER -> 0

\* render_title_left_side with the short sign in every truncation
render_title_left_side_short_sign(f, max_length) ==
    LET full_text == <<1>> \o f.title \o <<1>>
    IN IF max_length <= 6 \/ f.title = <<>> THEN NoTitle
       ELSE IF Sum(full_text) <= max_length
       THEN [some |-> TRUE, head |-> full_text, sign |-> "", tail |-> <<>>,
             len |-> Sum(full_text)]
       ELSE LET length_of_each_half == (max_length - SignWidth("[..]")) \div 2
                head == first_part(full_text, length_of_each_half)
                tail == second_part(full_text, length_of_each_half)
            IN [some |-> TRUE, head |-> head, sign |-> "[..]", tail |-> tail,
                len |-> Sum(head) + SignWidth("[..]") + Sum(tail)]

render_title_left_side(f, max_length) ==
    LET full_text == <<1>> \o f.title \o <<1>>
    IN IF max_length <= 6 \/ f.title = <<>> THEN NoTitle
       ELSE IF Sum(full_text) <= max_length
       THEN [some |-> TRUE, head |-> full_text, sign |-> "", tail |-> <<>>,
             len |-> Sum(full_text)]
       ELSE LET length_of_each_half == (max_length - SignWidth("[..]")) \div 2
                head == first_part(full_text, length_of_each_half)
                tail == second_part(full_text, length_of_each_half)
            IN IF Sum(head) + SignWidth("[..]") + Sum(tail) < max_length
               THEN [some |-> TRUE, head |-> head, sign |-> "[...]",
                     tail |-> tail,
                     len |-> Sum(head) + SignWidth("[...]") + Sum(tail)]
               ELSE [some |-> TRUE, head |-> head, sign |-> "[..]",
                     tail |-> tail,
                     len |-> Sum(head) + SignWidth("[..]") + Sum(tail)]

\* titles of up to FrameMaxTitle characters; a character is one or two
\* columns wide, or none (char.width().unwrap_or(0))
Titles == UNION {[1..n -> {0, 1, 2}] : n \in 0..FrameMaxTitle}

\* PaneFrame::new, by the fields the title line reads
PaneFrame_new(title, is_main_client, other_focused_clients, other_cursors) ==
    [rendered |-> "new", title |-> title, is_main_client |-> is_main_client,
     other_focused_clients |-> other_focused_clients,
     other_cursors_exist_in_session |-> other_cursors,
     max_length |-> 0, middle |-> NoPart, left |-> NoTitle]

PaneFrames ==
    {PaneFrame_new(title, is_main_client, other_focused_clients, other_cursors) :
         title \in Titles, is_main_client \in BOOLEAN,
         other_focused_clients \in SUBSET (1..FrameMaxClients),
         other_cursors \in BOOLEAN}

InitFrame ==
    /\ InitScreen
    /\ ~session_is_mirrored
    /\ frame \in PaneFrames

RenderTitleMiddle ==
    /\ \E max_length \in 0..FrameMaxLength :
           frame' = [frame EXCEPT !.rendered = "middle",
                                  !.max_length = max_length,
                                  !.middle = render_title_middle(frame, max_length),
                                  !.left = NoTitle]
    /\ UNCHANGED <<tabs, active_tab_indices, tab_history, connected_clients,
                   session_is_mirrored, running, overlay, assigned, last>>

RenderTitleLeftSide ==
    /\ \E max_length \in 0..FrameMaxLength :
           frame' = [frame EXCEPT !.rendered = "left",
                                  !.max_length = max_length,
                                  !.left = render_title_left_side(frame, max_length),
                                  !.middle = NoPart]
    /\ UNCHANGED <<tabs, active_tab_indices, tab_history, connected_clients,
                   session_is_mirrored, running, overlay, assigned, last>>

NextFrame ==
    \/ RenderTitleMiddle
    \/ RenderTitleLeftSide

SpecFrame == InitFrame /\ [][NextFrame]_vars

\* ------------------------------------------------------------- properties
\* what holds between two dispatches is stated of the states in which the
\* loop is still running: the Screen is dropped when the loop ends

\* C1: between dispatches every value stored in active_tab_indices is the id
\* of a tab present in tabs
ActiveTabsExist ==
    running => \A c \in DOMAIN active_tab_indices :
                   active_tab_indices[c] \in DOMAIN tabs

\* C2: tab_history[c] never holds the tab id stored in active_tab_indices[c]
HistoryExcludesActive ==
    running => \A c \in DOMAIN active_tab_indices \cap DOMAIN tab_history :
                   active_tab_indices[c] \notin Range(tab_history[c])

\* C3: tab_history[c] holds no tab id more than once
HistoryHasNoDuplicates ==
    running => \A c \in DOMAIN tab_history :
                   \A i, j \in DOMAIN tab_history[c] :
                       tab_history[c][i] = tab_history[c][j] => i = j

\* C4: in a mirrored session all entries of active_tab_indices hold the same
\* tab id after every dispatch
MirroredInLockstep ==
    (running /\ session_is_mirrored) =>
        \A c, d \in DOMAIN active_tab_indices :
            active_tab_indices[c] = active_tab_indices[d]

\* C5: after every dispatch a tab is visible exactly when the
\* active_tab_indices entry of at least one client points at it
VisibleIffActive ==
    running => \A t \in DOMAIN tabs :
                   tabs[t].visible <=>
                       \E c \in DOMAIN active_tab_indices :
                           active_tab_indices[c] = t

\* C6: the positions of the tabs are exactly 0 .. tabs.len() - 1, each taken
\* by one tab, whatever tabs were created and closed before
PositionsArePermutation ==
    /\ {tabs[t].position : t \in DOMAIN tabs} =
           0..(Cardinality(DOMAIN tabs) - 1)
    /\ \A t, u \in DOMAIN tabs : tabs[t].position = tabs[u].position => t = u

\* C6 witness: a close has moved a tab down to a position below its id
PositionsCompacted ==
    /\ running
    /\ last.instr = "CloseTab"
    /\ \E t \in DOMAIN tabs : tabs[t].position < t

\* C7 as stated: the id NewTab gives a tab is greater than every id given
\* to an earlier tab, closed ones included
TabIdNeverReused ==
    [][(last'.instr = "NewTab" /\ ~last'.failed) =>
           \A u \in assigned : last'.arg > u]_vars

\* C7: NewTab adds one tab, under an id greater than the id of every tab
\* that exists when it is created
TabIdAboveExisting ==
    [][(last'.instr = "NewTab" /\ ~last'.failed) =>
           \E t \in DOMAIN tabs' \ DOMAIN tabs :
               /\ t = last'.arg
               /\ \A u \in DOMAIN tabs : t > u]_vars

\* C7 witness: NewTab has created a tab after an earlier tab was closed
TabCreatedAfterClose ==
    /\ running
    /\ last.instr = "NewTab"
    /\ last.arg \in DOMAIN tabs
    /\ Cardinality(assigned) > Cardinality(DOMAIN tabs)

\* the instructions of the classes the dispatch table marks unblock_input =
\* yes, with the tab instructions
UnblockMarked ==
    {"NewPane", "HorizontalSplit", "VerticalSplit", "NewPaneInTab", "NewTab",
     "TogglePaneEmbedOrFloating", "ToggleFloatingPanes", "ClosePane",
     "CloseFocusedPane", "HoldPane", "OpenInPlaceEditor",
     "ResizeLeft", "ResizeRight", "ResizeDown", "ResizeUp", "ResizeIncrease",
     "ResizeDecrease", "SwitchFocus", "FocusNextPane", "FocusPreviousPane",
     "MoveFocusLeft", "MoveFocusDown", "MoveFocusRight", "MoveFocusUp",
     "MoveFocusLeftOrPreviousTab", "MoveFocusRightOrNextTab",
     "MovePane", "MovePaneDown", "MovePaneUp", "MovePaneRight", "MovePaneLeft",
     "ScrollUp", "ScrollUpAt", "ScrollDown", "ScrollDownAt", "ScrollToBottom",
     "PageScrollUp", "PageScrollDown", "HalfPageScrollUp",
     "HalfPageScrollDown", "SearchDown", "SearchUp", "DumpScreen",
     "UpdatePaneName", "UndoRenamePane", "UpdateTabName", "UndoRenameTab",
     "ChangeMode", "ChangeModeForAllClients",
     "LeftClick", "RightClick", "MiddleClick",
     "AddOverlay", "RemoveOverlay", "ConfirmPrompt", "DenyPrompt",
     "SwitchTabNext", "SwitchTabPrev", "GoToTab", "ToggleTab", "CloseTab"}

\* how many UnblockInputThread messages a dispatch has sent
Unblocks(sent) ==
    Len(SelectSeq(sent, LAMBDA m : m.msg = "UnblockInputThread"))

\* the place of unblock_input among the calls after the handler, 0 if the
\* arm does not call it
UnblockAt(i) ==
    IF \E k \in DOMAIN Post(i) : Post(i)[k] = U
    THEN CHOOSE k \in DOMAIN Post(i) : Post(i)[k] = U
    ELSE 0

SuccessUnblocksOnce ==
    (last.instr \in UnblockMarked /\ ~last.failed) =>
        Unblocks(last.sent) = 1

\* the instructions of the classes the dispatch table marks unblock_input =
\* no
UnblockUnmarked ==
    {"WriteCharacter", "Render", "AddClient", "RemoveClient",
     "LeftMouseRelease", "RightMouseRelease", "MiddleMouseRelease",
     "MouseHoldLeft", "MouseHoldRight", "MouseHoldMiddle"}

\* C11 as stated: an instruction marked unblock_input = no sends no
\* UnblockInputThread
UnmarkedNeverUnblocks ==
    last.instr \in UnblockUnmarked => Unblocks(last.sent) = 0

\* C11: WriteCharacter, Render, AddClient, RemoveClient, the right and the
\* middle mouse release and the three mouse holds send no UnblockInputThread;
\* the arm of LeftMouseRelease calls unblock_input after its render, and a
\* LeftMouseRelease dispatched without error sends exactly one
OnlyLeftReleaseUnblocks ==
    /\ last.instr \in UnblockUnmarked \ {"LeftMouseRelease"} =>
           Unblocks(last.sent) = 0
    /\ (last.instr = "LeftMouseRelease" /\ ~last.failed) =>
           Unblocks(last.sent) = 1

\* C11 witness: a LeftMouseRelease on an existing tab went through and
\* UnblockInputThread was sent
LeftReleaseUnblocked ==
    /\ last.instr = "LeftMouseRelease"
    /\ ~last.failed
    /\ DOMAIN tabs # {}
    /\ Unblocks(last.sent) = 1

\* the instructions of the classes the dispatch table marks render = yes
RenderMarked ==
    {"NewPane", "HorizontalSplit", "VerticalSplit", "NewTab",
     "TogglePaneEmbedOrFloating", "ToggleFloatingPanes", "ClosePane",
     "CloseFocusedPane", "HoldPane", "OpenInPlaceEditor",
     "ResizeLeft", "ResizeRight", "ResizeDown", "ResizeUp", "ResizeIncrease",
     "ResizeDecrease", "SwitchFocus", "FocusNextPane", "FocusPreviousPane",
     "MoveFocusLeft", "MoveFocusDown", "MoveFocusRight", "MoveFocusUp",
     "MovePane", "MovePaneDown", "MovePaneUp", "MovePaneRight", "MovePaneLeft",
     "ScrollUp", "ScrollUpAt", "ScrollDown", "ScrollDownAt", "ScrollToBottom",
     "PageScrollUp", "PageScrollDown", "HalfPageScrollUp",
     "HalfPageScrollDown", "SearchDown", "SearchUp", "DumpScreen",
     "UpdatePaneName", "UndoRenamePane", "UpdateTabName", "UndoRenameTab",
     "Render", "AddClient", "RemoveClient",
     "ChangeMode", "ChangeModeForAllClients",
     "LeftClick", "RightClick", "MiddleClick",
     "LeftMouseRelease", "RightMouseRelease", "MiddleMouseRelease",
     "MouseHoldLeft", "MouseHoldRight", "MouseHoldMiddle"}

\* how many Render messages a dispatch has sent to the server
Renders(sent) ==
    Len(SelectSeq(sent, LAMBDA m : m.msg \in {"RenderSome", "RenderNone"}))

\* C12: an instruction marked render = yes that is dispatched without error
\* sends at least one Render message to the server
SuccessRenders ==
    (last.instr \in RenderMarked /\ ~last.failed) => Renders(last.sent) >= 1

\* the instructions of the classes the dispatch table marks update_tabs = yes
UpdateTabsMarked ==
    {"NewPane", "HorizontalSplit", "VerticalSplit", "NewTab",
     "TogglePaneEmbedOrFloating", "ToggleFloatingPanes", "ClosePane",
     "CloseFocusedPane", "HoldPane", "OpenInPlaceEditor",
     "UpdateTabName", "UndoRenameTab", "AddClient",
     "LeftClick", "RightClick", "MiddleClick"}

\* how many TabUpdate events a dispatch has sent to the plugins for a client
TabUpdatesFor(sent, c) ==
    Len(SelectSeq(sent, LAMBDA m : m.msg = "TabUpdate" /\ m.client = c))

\* C13: an instruction marked update_tabs = yes that is dispatched without
\* error emits exactly one TabUpdate for every client of active_tab_indices
OneTabUpdatePerClient ==
    (last.instr \in UpdateTabsMarked /\ ~last.failed) =>
        \A c \in DOMAIN active_tab_indices :
            TabUpdatesFor(last.sent, c) = 1

\* the instructions of the classes the dispatch table marks update_tabs = no
UpdateTabsUnmarked ==
    {"ResizeLeft", "ResizeRight", "ResizeDown", "ResizeUp", "ResizeIncrease",
     "ResizeDecrease", "SwitchFocus", "FocusNextPane", "FocusPreviousPane",
     "MoveFocusLeft", "MoveFocusDown", "MoveFocusRight", "MoveFocusUp",
     "MoveFocusLeftOrPreviousTab", "MoveFocusRightOrNextTab",
     "MovePane", "MovePaneDown", "MovePaneUp", "MovePaneRight", "MovePaneLeft",
     "ScrollUp", "ScrollUpAt", "ScrollDown", "ScrollDownAt", "ScrollToBottom",
     "PageScrollUp", "PageScrollDown", "HalfPageScrollUp",
     "HalfPageScrollDown", "SearchDown", "SearchUp", "DumpScreen",
     "WriteCharacter", "Render", "RemoveClient",
     "ChangeMode", "ChangeModeForAllClients",
     "LeftMouseRelease", "RightMouseRelease", "MiddleMouseRelease",
     "MouseHoldLeft", "MouseHoldRight", "MouseHoldMiddle"}

\* how many TabUpdate events a dispatch has sent to the plugins
TabUpdates(sent) ==
    Len(SelectSeq(sent, LAMBDA m : m.msg = "TabUpdate"))

\* C14 as stated: an instruction marked update_tabs = no emits no TabUpdate
UnmarkedNeverUpdatesTabs ==
    last.instr \in UpdateTabsUnmarked => TabUpdates(last.sent) = 0

\* the instructions marked update_tabs = no whose handler neither calls
\* update_tabs nor switches the tab
NeverUpdatingTabs ==
    UpdateTabsUnmarked \ {"RemoveClient", "MoveFocusLeftOrPreviousTab",
                          "MoveFocusRightOrNextTab"}

\* C14: of the instructions marked update_tabs = no, RemoveClient emits one
\* TabUpdate for every client that remains (remove_client ends with
\* update_tabs); the others emit none, unless the render of the dispatch
\* closes a tab or a MoveFocus...OrTab switches the tab
OnlyRemoveClientUpdatesTabs ==
    [][/\ (last'.instr \in NeverUpdatingTabs /\ DOMAIN tabs' = DOMAIN tabs) =>
              TabUpdates(last'.sent) = 0
       /\ (/\ last'.instr \in {"MoveFocusLeftOrPreviousTab",
                               "MoveFocusRightOrNextTab"}
           /\ DOMAIN tabs' = DOMAIN tabs
           /\ active_tab_indices' = active_tab_indices) =>
              TabUpdates(last'.sent) = 0
       /\ (/\ last'.instr = "RemoveClient"
           /\ ~last'.failed
           /\ DOMAIN tabs' = DOMAIN tabs) =>
              \A c \in DOMAIN active_tab_indices' :
                  TabUpdatesFor(last'.sent, c) = 1]_vars

\* C14 witness: a client was removed while another one stays on a tab, and
\* a TabUpdate went out for the one that stays
RemoveClientUpdatedTabs ==
    /\ last.instr = "RemoveClient"
    /\ ~last.failed
    /\ last.client \notin DOMAIN active_tab_indices
    /\ \E c \in DOMAIN active_tab_indices : TabUpdatesFor(last.sent, c) = 1

\* how many Render(Some(..)) messages a dispatch has sent to the server
RenderSomes(sent) ==
    Len(SelectSeq(sent, LAMBDA m : m.msg = "RenderSome"))

\* the scenario of the mirrored tab switch: clients 1 and 2 are both on tab
\* t0, tab t1 sits at the next position, every tab has a selectable pane
BothOnTabBeforeNext(t0, t1) ==
    /\ session_is_mirrored
    /\ connected_clients = {1, 2}
    /\ DOMAIN active_tab_indices = {1, 2}
    /\ \A c \in {1, 2} : active_tab_indices[c] = t0
    /\ {t0, t1} \subseteq DOMAIN tabs
    /\ tabs[t0].clients = {1, 2}
    /\ tabs[t0].visible
    /\ tabs[t1].position = tabs[t0].position + 1
    /\ \A t \in DOMAIN tabs : Tab_has_selectable_tiled_panes(tabs[t])

\* C15: in the mirrored scenario SwitchTabNext(1) puts both clients on t1,
\* leaves t0 invisible and t1 visible, and the dispatch emits exactly one
\* TabUpdate per client and exactly one Render(Some(..))
MirroredSwitchRendersOnce ==
    [][\A t0, t1 \in TabIds :
         (/\ BothOnTabBeforeNext(t0, t1)
          /\ last'.instr = "SwitchTabNext"
          /\ last'.client = 1) =>
             /\ \A c \in {1, 2} : active_tab_indices'[c] = t1
             /\ ~tabs'[t0].visible
             /\ tabs'[t1].visible
             /\ \A c \in {1, 2} : TabUpdatesFor(last'.sent, c) = 1
             /\ RenderSomes(last'.sent) = 1]_vars

\* the instructions that switch the active tab of a client
SwitchInstructions == {"SwitchTabNext", "SwitchTabPrev", "GoToTab", "ToggleTab"}

\* C16: in an independent session a tab switch by a client changes the
\* active_tab_indices entry and the tab_history of that client only, and the
\* tab it leaves stays visible exactly when another client is still
\* connected to it (stated for the dispatches that close no tab: a render
\* that closes a tab moves the clients of the closed tab, whatever the
\* instruction)
SwitchTouchesOnlySwitcher ==
    [][(/\ ~session_is_mirrored
        /\ last'.instr \in SwitchInstructions
        /\ ~last'.failed
        /\ DOMAIN tabs' = DOMAIN tabs
        /\ has_active_tab(Screen, last'.client)) =>
           LET c == last'.client
               source == active_tab_indices[c]
           IN /\ DOMAIN active_tab_indices' = DOMAIN active_tab_indices
              /\ \A d \in DOMAIN active_tab_indices \ {c} :
                     active_tab_indices'[d] = active_tab_indices[d]
              /\ \A d \in DOMAIN tab_history \ {c} :
                     /\ d \in DOMAIN tab_history'
                     /\ tab_history'[d] = tab_history[d]
              /\ (active_tab_indices'[c] # source /\ tabs[source].visible) =>
                     (tabs'[source].visible <=>
                          tabs[source].clients \ {c} # {})]_vars

\* C16 witness: client 2 has switched to the other tab, client 1 is still
\* connected to the tab client 2 left and that tab is still visible
SwitcherLeftOtherBehind ==
    /\ ~session_is_mirrored
    /\ last.instr \in SwitchInstructions
    /\ ~last.failed
    /\ last.client = 2
    /\ DOMAIN active_tab_indices = {1, 2}
    /\ active_tab_indices[1] # active_tab_indices[2]
    /\ tab_history[2] = <<active_tab_indices[1]>>
    /\ 1 \in tabs[active_tab_indices[1]].clients
    /\ tabs[active_tab_indices[1]].visible

\* the most recent entry of a history that names an existing tab, with what
\* is left of the history below it
RECURSIVE PopUntilExisting(_, _)
PopUntilExisting(h, existing) ==
    IF h = <<>> THEN [found |-> FALSE, tab |-> NoArg, rest |-> <<>>]
    ELSE IF h[Len(h)] \in existing
    THEN [found |-> TRUE, tab |-> h[Len(h)], rest |-> Pop(h)]
    ELSE PopUntilExisting(Pop(h), existing)

\* C17: when a tab is closed, every client connected to it moves to the most
\* recent entry of its history that still exists (the entries that do not
\* are popped and skipped), to the first tab when no entry exists
ClosedTabClientsFollowHistory ==
    [][\A closed \in DOMAIN tabs :
         (/\ last'.instr = "CloseTab"
          /\ ~last'.failed
          /\ DOMAIN tabs' # {}
          /\ DOMAIN tabs \ DOMAIN tabs' = {closed}) =>
             \A c \in tabs[closed].clients \cap DOMAIN tab_history :
                 LET p == PopUntilExisting(tab_history[c], DOMAIN tabs')
                 IN /\ c \in DOMAIN active_tab_indices'
                    /\ active_tab_indices'[c] =
                           IF p.found THEN p.tab ELSE Min(DOMAIN tabs')
                    /\ tab_history'[c] = p.rest]_vars

\* how many Render(None) messages a dispatch has sent to the server
RenderNones(sent) ==
    Len(SelectSeq(sent, LAMBDA m : m.msg = "RenderNone"))

\* C18: a CloseTab that closes the last remaining tab leaves tabs empty,
\* clears active_tab_indices and sends Render(None) to the server
ClosingLastTabClearsAll ==
    [][(/\ last'.instr = "CloseTab"
        /\ ~last'.failed
        /\ Cardinality(DOMAIN tabs) = 1
        /\ retarget(Screen, last'.client) # NoClient
        /\ has_active_tab(Screen, retarget(Screen, last'.client))) =>
           /\ DOMAIN tabs' = {}
           /\ DOMAIN active_tab_indices' = {}
           /\ RenderNones(last'.sent) = 1]_vars

\* C18 witness: the only tab, with a client on it, has been closed
LastTabClosed ==
    /\ last.instr = "CloseTab"
    /\ ~last.failed
    /\ DOMAIN tabs = {}
    /\ DOMAIN active_tab_indices = {}
    /\ connected_clients # {}
    /\ RenderNones(last.sent) = 1

\* how many CloseTab(pane_ids) messages a dispatch has sent to the pty
PtyCloseTabs(sent) ==
    Len(SelectSeq(sent, LAMBDA m : m.msg = "CloseTab"))

\* C19: a CloseTab whose CloseTab(pane_ids) did not reach the pty (the tab
\* is gone and no such message was sent) still performs the rest of the
\* close: the clients of the closed tab are on tabs that exist, or, with no
\* tab left, active_tab_indices is cleared and Render(None) is sent
CloseSurvivesPtyFailure ==
    [][\A closed \in DOMAIN tabs :
         (/\ last'.instr = "CloseTab"
          /\ closed \notin DOMAIN tabs'
          /\ PtyCloseTabs(last'.sent) = 0) =>
             IF DOMAIN tabs' = {}
             THEN /\ DOMAIN active_tab_indices' = {}
                  /\ RenderNones(last'.sent) = 1
             ELSE \A c \in tabs[closed].clients :
                      /\ c \in DOMAIN active_tab_indices'
                      /\ active_tab_indices'[c] \in DOMAIN tabs']_vars

\* the tab-level instructions
TabLevelInstructions ==
    {"SwitchTabNext", "SwitchTabPrev", "GoToTab", "ToggleTab", "CloseTab",
     "NewTab", "UpdateTabName", "UndoRenameTab"}

\* C20: a tab-level instruction tagged with a client that is not in
\* active_tab_indices surfaces no error and, when another client is there
\* to act for, does not give the tagged client a tab of its own; a GoToTab
\* to a position no tab has (whose render closes no tab) leaves the state as
\* it was
UnknownClientFallsBack ==
    [][(/\ last'.instr \in TabLevelInstructions
        /\ last'.client \in Clients
        /\ last'.client \notin DOMAIN active_tab_indices) =>
           /\ ~last'.failed
           /\ DOMAIN active_tab_indices # {} =>
                  last'.client \notin DOMAIN active_tab_indices'
           /\ (/\ last'.instr = "GoToTab"
               /\ DOMAIN tabs' = DOMAIN tabs
               /\ \A t \in DOMAIN tabs :
                      tabs[t].position # Max({last'.arg - 1, 0})) =>
                  UNCHANGED <<tabs, active_tab_indices, tab_history>>]_vars

\* the client a NewTab tagged with client_id is carried out for
NewTabClient(client_id) ==
    IF has_active_tab(Screen, client_id) THEN client_id
    ELSE IF get_first_client_id(Screen) # NoClient
    THEN get_first_client_id(Screen) ELSE client_id

\* C21: a NewTab dispatched without error (and whose render closes no tab)
\* adds exactly one tab, with id max(existing ids) + 1 (0 without tabs) and
\* position the former number of tabs, visible, and the new tab is the
\* active tab of the client the request was carried out for
NewTabIsActiveForRequester ==
    [][(/\ last'.instr = "NewTab"
        /\ ~last'.failed
        /\ DOMAIN tabs \subseteq DOMAIN tabs') =>
           \E n \in DOMAIN tabs' :
               /\ DOMAIN tabs' \ DOMAIN tabs = {n}
               /\ n = IF DOMAIN tabs = {} THEN 0 ELSE Max(DOMAIN tabs) + 1
               /\ tabs'[n].position = Cardinality(DOMAIN tabs)
               /\ tabs'[n].visible
               /\ NewTabClient(last'.client) \in DOMAIN active_tab_indices'
               /\ active_tab_indices'[NewTabClient(last'.client)] = n]_vars

\* the tab add_client picks: the active tab of the first known client, else
\* tab 0, else the tab with the smallest id
AddClientTarget ==
    IF DOMAIN active_tab_indices # {}
    THEN active_tab_indices[Min(DOMAIN active_tab_indices)]
    ELSE IF 0 \in DOMAIN tabs THEN 0
    ELSE Min(DOMAIN tabs)

\* C22: AddClient(c) attaches c to the active tab of the first known client
\* if there is one, else to tab 0 if it exists, else to the tab with the
\* smallest id (seen when the render of the dispatch closes no tab); with no
\* tab it fails and leaves connected_clients, active_tab_indices and
\* tab_history as they were
AddClientPicksTab ==
    [][last'.instr = "AddClient" =>
         /\ DOMAIN tabs = {} =>
                /\ last'.failed
                /\ UNCHANGED <<connected_clients, active_tab_indices,
                               tab_history>>
         /\ (/\ DOMAIN tabs # {}
             /\ AddClientTarget \in DOMAIN tabs
             /\ DOMAIN tabs' = DOMAIN tabs) =>
                /\ ~last'.failed
                /\ last'.client \in connected_clients'
                /\ last'.client \in DOMAIN active_tab_indices'
                /\ active_tab_indices'[last'.client] = AddClientTarget
                /\ last'.client \in tabs'[AddClientTarget].clients]_vars

\* C22 witness: client 2 was added with nobody in active_tab_indices and no
\* tab 0, and sits on the tab with the smallest id
AddedToSmallestTab ==
    /\ last.instr = "AddClient"
    /\ ~last.failed
    /\ last.client = 2
    /\ DOMAIN active_tab_indices = {2}
    /\ 0 \notin DOMAIN tabs
    /\ DOMAIN tabs # {}
    /\ active_tab_indices[2] = Min(DOMAIN tabs)
    /\ 2 \in tabs[Min(DOMAIN tabs)].clients

\* C23: after a RemoveClient(c) dispatched without error, with every tab
\* holding a selectable pane, c is in no tab's connected-client set and has
\* no entry in connected_clients, active_tab_indices or tab_history, the
\* tabs are the same tabs, and every tab without connected clients is
\* invisible
RemoveClientScrubs ==
    [][(/\ last'.instr = "RemoveClient"
        /\ ~last'.failed
        /\ \A t \in DOMAIN tabs : Tab_has_selectable_tiled_panes(tabs[t])) =>
           LET c == last'.client
           IN /\ DOMAIN tabs' = DOMAIN tabs
              /\ \A t \in DOMAIN tabs' : c \notin tabs'[t].clients
              /\ c \notin connected_clients'
              /\ c \notin DOMAIN active_tab_indices'
              /\ c \notin DOMAIN tab_history'
              /\ \A t \in DOMAIN tabs' :
                     Tab_has_no_connected_clients(tabs'[t]) =>
                         ~tabs'[t].visible]_vars

\* C23 witness: client 1 has been removed while client 2 stays, and a tab
\* is left without clients, invisible and not destroyed
RemovedClientLeftTab ==
    /\ last.instr = "RemoveClient"
    /\ ~last.failed
    /\ last.client = 1
    /\ connected_clients = {2}
    /\ DOMAIN tab_history = {2}
    /\ \E t \in DOMAIN tabs :
           /\ Tab_has_no_connected_clients(tabs[t])
           /\ ~tabs[t].visible

\* C24: every client id that is a key of active_tab_indices is a member of
\* connected_clients
ActiveClientsConnected ==
    DOMAIN active_tab_indices \subseteq connected_clients

\* C24 witness: two clients have an active tab, after a tab was closed under
\* one of them
ClientsKeptAfterClose ==
    /\ last.instr = "CloseTab"
    /\ ~last.failed
    /\ DOMAIN active_tab_indices = {1, 2}
    /\ connected_clients = {1, 2}
    /\ DOMAIN tabs # {}

\* the clients connected to some tab
TabClients ==
    UNION {tabs[t].clients : t \in DOMAIN tabs}

\* C25: connected_clients equals the union of the connected-client sets of
\* all tabs
ConnectedIsUnionOfTabs ==
    connected_clients = TabClients

\* the Screen after the dispatch of SwitchTabNext(c), and after the dispatch
\* of SwitchTabPrev(c) that follows it
AfterNext(c, env) ==
    post_actions(switch_tab_next(Screen, c, env), Post("SwitchTabNext"), env)

AfterNextPrev(c, env) ==
    post_actions(switch_tab_prev([AfterNext(c, env) EXCEPT !.sent = <<>>,
                                                           !.at = 0],
                                 c, env),
                 Post("SwitchTabPrev"), env)

\* C26: for a client with an active tab, SwitchTabNext followed at once by
\* SwitchTabPrev, with no tab created or closed on the way, brings the
\* client back to the tab it was on, at the position it had; with exactly
\* one tab SwitchTabNext changes neither active_tab_indices nor tab_history
NextThenPrevReturns ==
    \A c \in DOMAIN active_tab_indices, env \in Quiet :
        (/\ running
         /\ has_active_tab(Screen, c)
         /\ ~AfterNextPrev(c, env).err
         /\ DOMAIN AfterNext(c, env).tabs = DOMAIN tabs
         /\ DOMAIN AfterNextPrev(c, env).tabs = DOMAIN tabs) =>
            LET r1 == AfterNext(c, env)
                r2 == AfterNextPrev(c, env)
            IN /\ r2.active_tab_indices[c] = active_tab_indices[c]
               /\ r2.tabs[r2.active_tab_indices[c]].position =
                      tabs[active_tab_indices[c]].position
               /\ Cardinality(DOMAIN tabs) = 1 =>
                      /\ r1.active_tab_indices = active_tab_indices
                      /\ r1.tab_history = tab_history

\* C26 witness: client 1 is on the tab at the last of two positions, so
\* that SwitchTabNext wraps around to position 0 and SwitchTabPrev wraps
\* back
NextWrapsAndPrevReturns ==
    /\ running
    /\ Cardinality(DOMAIN tabs) = 2
    /\ has_active_tab(Screen, 1)
    /\ tabs[active_tab_indices[1]].position = 1
    /\ \E env \in Quiet :
           /\ ~AfterNextPrev(1, env).err
           /\ DOMAIN AfterNextPrev(1, env).tabs = DOMAIN tabs
           /\ AfterNext(1, env).active_tab_indices[1] # active_tab_indices[1]
           /\ AfterNextPrev(1, env).active_tab_indices[1] = active_tab_indices[1]

\* GoToTab(0, c) gives what GoToTab(1, c) gives, and where it moves the
\* client (no tab closed by its render) the client is at position 0
GoToZeroIsGoToOne ==
    \A c \in Clients, env \in Quiet :
        LET r == go_to_tab(Screen, 0, c, env)
        IN /\ r = go_to_tab(Screen, 1, c, env)
           /\ (/\ ~r.err
               /\ r.active_tab_indices # active_tab_indices
               /\ DOMAIN r.tabs = DOMAIN tabs) =>
                  r.tabs[r.active_tab_indices[c]].position = 0

\* C27: GoToTab(k, c) with k greater than the number of tabs (every tab
\* holding a selectable pane) completes without error and leaves tabs,
\* active_tab_indices and tab_history unchanged; GoToTab(0, c) behaves as
\* GoToTab(1, c) and targets position 0
GoToTabOutOfRange ==
    /\ []GoToZeroIsGoToOne
    /\ [][(/\ last'.instr = "GoToTab"
           /\ last'.arg > Cardinality(DOMAIN tabs)
           /\ \A t \in DOMAIN tabs :
                  Tab_has_selectable_tiled_panes(tabs[t])) =>
              /\ ~last'.failed
              /\ UNCHANGED <<tabs, active_tab_indices, tab_history>>]_vars

\* C27 witness: a GoToTab beyond the last of two tabs went through for a
\* client that has an active tab
WentToMissingTab ==
    /\ last.instr = "GoToTab"
    /\ ~last.failed
    /\ Cardinality(DOMAIN tabs) = 2
    /\ last.arg > Cardinality(DOMAIN tabs)
    /\ last.client \in Clients
    /\ has_active_tab(Screen, last.client)
    /\ Unblocks(last.sent) = 1


\* the name the tab is to carry after UpdateTabName(buf)
edited(name, buf) ==
    IF buf = <<0>> THEN <<>>
    ELSE IF buf \in {<<127>>, <<8>>}
    THEN (IF name = <<>> THEN <<>> ELSE SubSeq(name, 1, Len(name) - 1))
    ELSE IF \A i \in DOMAIN buf : buf[i] \in 32..126 THEN name \o buf
    ELSE name

RenameInputs ==
    LET ok == {buf \in TabNameInputs : is_utf8(buf)}
    IN {<<>>} \cup {<<a>> : a \in ok} \cup {<<a, b>> : a \in ok, b \in ok}

\* the Screen after the UpdateTabName instructions of bufs, in order
RECURSIVE AfterUpdateTabNames(_, _, _)
AfterUpdateTabNames(s, bufs, c) ==
    IF bufs = <<>> THEN s
    ELSE AfterUpdateTabNames(update_active_tab_name(s, Head(bufs), c, "none"),
                             Tail(bufs), c)

\* from any state with a single client c that has an active tab:
\* ChangeMode(RenameTab, c), then UpdateTabName instructions, then
\* UndoRenameTab(c) give the tab the name it had at the ChangeMode, with a
\* TabUpdate from the undo iff the name had come to differ from it
UndoRestoresSnapshot ==
    \A c \in connected_clients :
        (connected_clients = {c} /\ has_active_tab(Screen, c)) =>
            LET t == active_tab_indices[c]
                s1 == change_mode(Screen, "RenameTab", c, "none")
            IN \A bufs \in RenameInputs :
                   LET s2 == AfterUpdateTabNames(s1, bufs, c)
                       s3 == undo_active_rename_tab(s2, c, "none")
                   IN /\ ~s3.err
                      /\ s3.tabs[t].name = tabs[t].name
                      /\ s3.tabs[t].name = s3.tabs[t].prev_name
                      /\ TabUpdates(s3.sent) > TabUpdates(s2.sent) <=>
                             s2.tabs[t].name # tabs[t].name

\* C29: with a single client c, ChangeMode(RenameTab, c) copies the name of
\* the active tab into prev_name, UpdateTabName(_, c) leaves prev_name as it
\* is, and UndoRenameTab(c) leaves name equal to that prev_name, sending
\* TabUpdate iff the name differed from it; so the undo after any sequence
\* of UpdateTabName restores the name snapshotted by the ChangeMode
UndoRenameRestoresPrevName ==
    /\ []UndoRestoresSnapshot
    /\ [][(/\ connected_clients = {last'.client}
           /\ has_active_tab(Screen, last'.client)
           /\ ~last'.failed) =>
             LET t == active_tab_indices[last'.client]
             IN /\ (last'.instr = "ChangeMode" /\ last'.arg = "RenameTab") =>
                       /\ tabs'[t].prev_name = tabs[t].name
                       /\ tabs'[t].name = tabs[t].name
                /\ last'.instr = "UpdateTabName" =>
                       tabs'[t].prev_name = tabs[t].prev_name
                /\ last'.instr = "UndoRenameTab" =>
                       /\ tabs'[t].name = tabs[t].prev_name
                       /\ tabs'[t].prev_name = tabs[t].prev_name
                       /\ TabUpdates(last'.sent) > 0 <=>
                              tabs[t].name # tabs[t].prev_name]_vars

\* C29 witness: the single client's UndoRenameTab has put a name of one
\* character back over a different one, and has sent TabUpdate
UndoPutNameBack ==
    /\ last.instr = "UndoRenameTab"
    /\ ~last.failed
    /\ connected_clients = {last.client}
    /\ has_active_tab(Screen, last.client)
    /\ tabs[active_tab_indices[last.client]].name = <<97>>
    /\ tabs[active_tab_indices[last.client]].prev_name = <<97>>
    /\ TabUpdates(last.sent) > 0

\* the writes among the messages of an instruction
Writes(sent) == SelectSeq(sent, LAMBDA m : m.msg = "Write")

\* C30: WriteCharacter(bytes, c) writes the bytes once, on the active tab
\* of c: to all its terminals when the tab has sync-panes active, to the
\* active terminal of c otherwise; no other tab gets a write
WriteCharacterFollowsSync ==
    [][(/\ last'.instr = "WriteCharacter"
        /\ ~last'.failed
        /\ has_active_tab(Screen, last'.client)) =>
           LET index == active_tab_indices[last'.client]
               w == Writes(last'.sent)
           IN /\ Len(w) = 1
              /\ w[1].tab = index
              /\ Tab_is_sync_panes_active(tabs[index]) =>
                     w[1].terminals = "all"
              /\ ~Tab_is_sync_panes_active(tabs[index]) =>
                     w[1].terminals = "active" /\ w[1].client = last'.client]_vars

\* C30 witness: with two tabs, a client on a tab with sync-panes active has
\* written to all the terminals of that tab
WroteToAllTerminals ==
    /\ last.instr = "WriteCharacter"
    /\ ~last.failed
    /\ Cardinality(DOMAIN tabs) = 2
    /\ has_active_tab(Screen, last.client)
    /\ Tab_is_sync_panes_active(tabs[active_tab_indices[last.client]])
    /\ \E i \in DOMAIN last.sent :
           /\ last.sent[i].msg = "Write"
           /\ last.sent[i].terminals = "all"
           /\ last.sent[i].tab = active_tab_indices[last.client]

\* the tabs without a selectable tiled pane
Unselectable == {t \in DOMAIN tabs : ~Tab_has_selectable_tiled_panes(tabs[t])}

\* C31: render, called with every peer healthy in a state where one or more
\* tabs have no selectable tiled pane, succeeds and leaves none of those tabs
\* in the collection
RenderClosesUnselectable ==
    \A env \in Quiet :
        Unselectable # {} =>
            /\ ~render(Screen, env).err
            /\ DOMAIN render(Screen, env).tabs \cap Unselectable = {}

\* C32: Exit stops the loop without an error and without sending anything or
\* touching the Screen, and no instruction is applied after an Exit
ExitStopsLoop ==
    [][/\ last.instr # "Exit"
       /\ last'.instr = "Exit" =>
              /\ ~running'
              /\ ~last'.failed
              /\ last'.sent = <<>>
              /\ UNCHANGED <<tabs, active_tab_indices, tab_history,
                             connected_clients, overlay>>]_vars

\* C32 witness: the loop has stopped on an Exit received while a client was
\* on a tab
ExitedWithClient ==
    /\ last.instr = "Exit"
    /\ ~running
    /\ ~last.failed
    /\ DOMAIN active_tab_indices # {}
    /\ DOMAIN tabs # {}

\* C33: when a switch of tab fails, the clients that were on the tab the
\* switching client leaves are not lost: each is still connected to a tab
FailedMoveKeepsClients ==
    [][(/\ last'.instr \in {"SwitchTabNext", "SwitchTabPrev", "GoToTab"}
        /\ last'.failed
        /\ has_active_tab(Screen, last'.client)) =>
           \A d \in tabs[active_tab_indices[last'.client]].clients :
               \E t \in DOMAIN tabs' : d \in tabs'[t].clients]_vars

\* the embedded instructions forwarded to the server among the messages
Confirmeds(sent) == Len(SelectSeq(sent, LAMBDA m : m.msg = "Confirmed"))

\* C34: the stack of overlays never holds more than one overlay, and
\* ConfirmPrompt forwards the instruction of the overlay it pops at most
\* once: it sends at most one, only that of the overlay on top, and leaves
\* no overlay behind to confirm again
AtMostOneOverlay ==
    /\ [](Len(overlay) <= 1)
    /\ [][last'.instr = "ConfirmPrompt" =>
              /\ Confirmeds(last'.sent) <= 1
              /\ Confirmeds(last'.sent) = 1 => overlay = <<TRUE>>
              /\ overlay' = <<>>]_vars

\* C34 witness: ConfirmPrompt has popped the overlay and forwarded its
\* instruction to the server
ConfirmedOverlay ==
    /\ last.instr = "ConfirmPrompt"
    /\ ~last.failed
    /\ Confirmeds(last.sent) = 1
    /\ overlay = <<>>

\* the Screen after ToggleTab(c), and after a second one
AfterToggle(c, env) ==
    post_actions(toggle_tab(Screen, c, env), Post("ToggleTab"), env)

AfterToggleToggle(c, env) ==
    post_actions(toggle_tab([AfterToggle(c, env) EXCEPT !.sent = <<>>], c, env),
                 Post("ToggleTab"), env)

\* two consecutive ToggleTab(c) return c to its active tab
ToggleTwiceReturns ==
    \A c \in DOMAIN active_tab_indices, env \in Quiet :
        (/\ c \in DOMAIN tab_history
         /\ DOMAIN AfterToggleToggle(c, env).tabs = DOMAIN tabs) =>
            /\ ~AfterToggleToggle(c, env).err
            /\ AfterToggleToggle(c, env).active_tab_indices[c] =
                   active_tab_indices[c]

\* C35: ToggleTab(c) moves c to the tab on top of tab_history[c], two
\* consecutive ToggleTab(c) with no tab created or closed return c to its
\* active tab, and tab_history[c] does not grow under ToggleTab
ToggleTabSwapsWithHistory ==
    /\ []ToggleTwiceReturns
    /\ [][(/\ last'.instr = "ToggleTab"
           /\ ~last'.failed
           /\ last'.client \in DOMAIN active_tab_indices
           /\ last'.client \in DOMAIN tab_history
           /\ DOMAIN tabs' = DOMAIN tabs) =>
              LET h == tab_history[last'.client]
              IN /\ Len(tab_history'[last'.client]) <= Len(h)
                 /\ Len(h) > 0 =>
                        active_tab_indices'[last'.client] = h[Len(h)]]_vars

\* C36: every TabUpdate emitted for a client marks exactly one of the tabs
\* it lists active, and names other focused clients on no tab in a mirrored
\* session
TabUpdateMarksOneActive ==
    [][\A i \in DOMAIN last'.sent :
           last'.sent[i].msg = "TabUpdate" =>
               /\ Cardinality({t \in DOMAIN last'.sent[i].tabs :
                                   last'.sent[i].tabs[t].active}) = 1
               /\ session_is_mirrored =>
                      \A t \in DOMAIN last'.sent[i].tabs :
                          last'.sent[i].tabs[t].other_focused_clients = {}]_vars

\* the instructions that can come between the ChangeMode(RenameTab) and the
\* UndoRenameTab of a client: UpdateTabName of any client, ChangeMode of
\* another one
RenameSteps(c) ==
    {[instr |-> "UpdateTabName", client |-> d, buf |-> buf] :
         d \in connected_clients, buf \in {<<97>>, <<127>>, <<0>>}}
    \cup {[instr |-> "ChangeMode", client |-> d, buf |-> <<>>] :
              d \in connected_clients \ {c}}

AfterRenameStep(s, step) ==
    IF step.instr = "UpdateTabName"
    THEN update_active_tab_name(s, step.buf, step.client, "none")
    ELSE change_mode(s, "RenameTab", step.client, "none")

\* C37: with the clients on one tab, whatever one or two instructions of
\* the clients come between ChangeMode(RenameTab, c) and UndoRenameTab(c),
\* the undo gives the tab the name it had at the ChangeMode of c
UndoRestoresOwnSnapshot ==
    \A c \in connected_clients :
        (/\ \A d \in connected_clients : has_active_tab(Screen, d)
         /\ Cardinality({active_tab_indices[d] : d \in connected_clients}) = 1) =>
            LET t == active_tab_indices[c]
                s1 == change_mode(Screen, "RenameTab", c, "none")
            IN \A a \in RenameSteps(c), b \in RenameSteps(c) :
                   /\ undo_active_rename_tab(AfterRenameStep(s1, a), c,
                                             "none").tabs[t].name = tabs[t].name
                   /\ undo_active_rename_tab(
                          AfterRenameStep(AfterRenameStep(s1, a), b), c,
                          "none").tabs[t].name = tabs[t].name

\* C38: every tab id in the tab_history of a client is the id of a tab that
\* exists
HistoryTabsExist ==
    \A c \in DOMAIN tab_history :
        \A i \in DOMAIN tab_history[c] : tab_history[c][i] \in DOMAIN tabs

\* the words of the indications of a frame: none for the main client alone
\* in the session, those of the main client without and with other focused
\* clients, those of the focused users in every other case
IndicationWords(f) ==
    IF f.is_main_client /\ f.other_focused_clients = {}
    THEN (IF f.other_cursors_exist_in_session THEN {"MY FOCUS", "ME"} ELSE {})
    ELSE IF f.is_main_client THEN {"MY FOCUS AND:", "+"}
    ELSE {"FOCUSED USER:", "FOCUSED USERS:", "U:"}

\* the longest indication of the frame and the columns it takes with its
\* cursors, separators and padding
FullIndication(f) ==
    LET n == Cardinality(f.other_focused_clients)
    IN IF f.is_main_client /\ f.other_focused_clients = {}
       THEN [word |-> "MY FOCUS", width |-> 12]
       ELSE IF f.is_main_client
       THEN [word |-> "MY FOCUS AND:", width |-> 13 + 2 * n + 4]
       ELSE IF n = 1 THEN [word |-> "FOCUSED USER:", width |-> 13 + 2 * n + 4]
       ELSE [word |-> "FOCUSED USERS:", width |-> 14 + 2 * n + 4]

\* C39: the middle indicator of a frame is none for the main client with no
\* other focused client and no other cursor in the session; otherwise it is
\* one of the indications of the frame's case, the full one when the budget
\* has room for it, and whatever is produced takes no more columns than the
\* budget
MiddleIndicatorFits ==
    frame.rendered = "middle" =>
        LET words == {tok \in Range(frame.middle.text) :
                          tok \notin {VERTICAL_LEFT, VERTICAL_RIGHT,
                                      EMPTY_TERMINAL_CHARACTER, "cursor"}}
        IN /\ IndicationWords(frame) = {} => ~frame.middle.some
           /\ frame.middle.some =>
                  /\ words \subseteq IndicationWords(frame)
                  /\ frame.middle.len <= frame.max_length
                  /\ TextWidth(frame.middle.text) <= frame.max_length
           /\ (/\ IndicationWords(frame) # {}
               /\ FullIndication(frame).width <= frame.max_length) =>
                  /\ frame.middle.some
                  /\ FullIndication(frame).word \in words

\* C40: the left title of a frame, for a non-empty title and any budget: the
\* text " title " is emitted in full when it fits; otherwise head + sign +
\* tail is emitted, no wider than the budget, the sign being "[...]" exactly
\* when head + "[..]" + tail is one column short of the budget
FullText(f) == <<1>> \o f.title \o <<1>>

IsPrefix(p, text) == Len(p) <= Len(text) /\ p = SubSeq(text, 1, Len(p))

IsSuffix(q, text) ==
    Len(q) <= Len(text) /\ q = SubSeq(text, Len(text) - Len(q) + 1, Len(text))

====
